---- MODULE Spec2Model ----
(***************************************************************************)
(* The leveled homomorphic evaluation engine as the HomEnc notebooks drive *)
(* it through tenseal.sealapi: encryption parameters, the modulus          *)
(* switching chain built by SEALContext, the keys, and the evaluator's     *)
(* effect on the (parms_id, size, scale) of each ciphertext object.        *)
(*                                                                         *)
(* Numbers are scaled down: primes of a few bits stand for the 30..60 bit  *)
(* primes of the notebooks, and the encoding scale 2^ScaleExp for 2^40.    *)
(* A scale is the exact rational 2^exp / den (den a product of the odd     *)
(* primes divided out by rescaling), so equal scales are equal records.    *)
(***************************************************************************)
EXTENDS Integers, Sequences, FiniteSets, TLC

\* Longest BFV coeff_modulus tried (the level notebook uses 5 primes).
MaxPrimes == 5

\* Primes of the CKKS coeff_modulus: CoeffModulus.Create(N, [60, 40, 40, 60]).
CkksPrimes == 4

\* log2 of the scale the encoder is given (scale = pow(2.0, 40) in the notebooks).
ScaleExp == 2

\* Largest ciphertext size explored (multiply is not called beyond it).
MaxSize == 5

\* Largest log2 of a scale numerator explored: room for the cube of the scale.
MaxScaleExp == 3 * ScaleExp

\* The primes CoeffModulus.Create hands out, in coeff_modulus order.
PrimePool == <<3, 5, 7, 11, 13, 17, 19>>

\* The ciphertext objects of a notebook (x_encrypted, x_sq_plus_one, ...).
Regs == {"x", "y"}

\* The evaluation notebooks: parameters, chain, keys, ciphertext objects and
\* the outcome of the last call.
VARIABLES parms, chain, keys, ct, last

evalVars == <<parms, chain, keys, ct, last>>

\* The parameter validation cells: the EncryptionParameters being set up
\* (by bit sizes), the SEALContext made from them, the outcome of the last
\* call.
VARIABLES sealparms, sealctx, raised

ctxVars == <<sealparms, sealctx, raised>>

\* The batch encoder cells: the batching parameters, the input matrix, the
\* plaintext it is encoded into and the decoded matrix.
VARIABLES batchparms, pod_matrix, plain_matrix, pod_result

batchVars == <<batchparms, pod_matrix, plain_matrix, pod_result>>

\* The cells of 1_bfv_basics.ipynb that evaluate 4(x^2+1)(x+1)^2: the plaintext
\* of x, the cell to run next, the ciphertext objects and the notebook's output.
VARIABLES x_plain, cell, bfvct, printed

bfvVars == <<x_plain, cell, bfvct, printed>>

\* The noise budget cells of the levels notebook: the ciphertext they work on.
VARIABLES encrypted

noiseVars == <<encrypted>>

\* The CKKS basics cells (part_001): the input points, the cell to run next,
\* the encoded coefficients, the ciphertext objects and the decoded result.
VARIABLES input, ckks_cell, plain_coeff, ckks, plain_result

ckksVars == <<input, ckks_cell, plain_coeff, ckks, plain_result>>

\* The cells of bit_size_test.ipynb: bit_size and scale, the value x, its
\* plaintext, its ciphertext, the decoded value and the outcome of encode.
VARIABLES bit_parms, bit_x, bit_plain, x_enc, after_enc, bit_raised

bitVars == <<bit_parms, bit_x, bit_plain, x_enc, after_enc, bit_raised>>

\* A call of square_and_multiply (comparison.ipynb): its arguments cipher,
\* res and exp, the digits of binary_exp its loop has still to read, where
\* the call stands, the exception it raised, and the arguments as they were
\* on entry.
VARIABLES cipher, res, exp, binary_exp, sqm_pc, sqm_raised, entry

sqmVars == <<cipher, res, exp, binary_exp, sqm_pc, sqm_raised, entry>>

\* The cells of comparison.ipynb: the ciphertext objects by name, the cell to
\* run next, the helper function called last with its argument, and the
\* exception it raised.
VARIABLES store, cmp_cell, cmp_call, cmp_raised

cmpVars == <<store, cmp_cell, cmp_call, cmp_raised>>

vars == <<evalVars, ctxVars, batchVars, bfvVars, noiseVars, ckksVars, bitVars, sqmVars, cmpVars>>

\* What a run of the evaluation notebooks leaves alone.
notEval == <<ctxVars, batchVars, bfvVars, noiseVars, ckksVars, bitVars, sqmVars, cmpVars>>

\* What a run of the parameter validation cells leaves alone.
notCtx == <<evalVars, batchVars, bfvVars, noiseVars, ckksVars, bitVars, sqmVars, cmpVars>>

\* What a run of the batch encoder cells leaves alone.
notBatch == <<evalVars, ctxVars, bfvVars, noiseVars, ckksVars, bitVars, sqmVars, cmpVars>>

\* What a run of the cells of 1_bfv_basics.ipynb leaves alone.
notBfv == <<evalVars, ctxVars, batchVars, noiseVars, ckksVars, bitVars, sqmVars, cmpVars>>

\* What a run of the noise budget cells leaves alone.
notNoise == <<evalVars, ctxVars, batchVars, bfvVars, ckksVars, bitVars, sqmVars, cmpVars>>

\* What a run of the CKKS basics cells leaves alone.
notCkks == <<evalVars, ctxVars, batchVars, bfvVars, noiseVars, bitVars, sqmVars, cmpVars>>

\* What a run of the cells of bit_size_test.ipynb leaves alone.
notBit == <<evalVars, ctxVars, batchVars, bfvVars, noiseVars, ckksVars, sqmVars, cmpVars>>

\* What a run of the calls of square_and_multiply leaves alone.
notSqm == <<evalVars, ctxVars, batchVars, bfvVars, noiseVars, ckksVars, bitVars, cmpVars>>

\* What a run of the cells of comparison.ipynb leaves alone.
notCmp == <<evalVars, ctxVars, batchVars, bfvVars, noiseVars, ckksVars, bitVars, sqmVars>>

\* No SEALContext object yet.
NoContext == [message |-> "", parameters_set |-> FALSE, chain_bits |-> <<>>]

\* The parameter validation cells have not run.
CtxIdle ==
    /\ sealparms = [poly_modulus_degree |-> 0, coeff_bits |-> <<>>]
    /\ sealctx = NoContext
    /\ raised = "ok"

\* The batch encoder cells have not run.
BatchIdle ==
    /\ batchparms = [poly_modulus_degree |-> 0, plain_modulus |-> 0]
    /\ pod_matrix = <<>>
    /\ plain_matrix = <<>>
    /\ pod_result = <<>>

\* The cells of 1_bfv_basics.ipynb have not run.
BfvIdle ==
    /\ x_plain = <<>>
    /\ cell = 0
    /\ bfvct = <<>>
    /\ printed = <<>>

\* The noise budget cells have not run.
NoiseIdle ==
    /\ encrypted = <<>>

\* The CKKS basics cells have not run.
CkksIdle ==
    /\ input = <<>>
    /\ ckks_cell = 0
    /\ plain_coeff = <<>>
    /\ ckks = <<>>
    /\ plain_result = <<>>

\* The cells of bit_size_test.ipynb have not run.
BitIdle ==
    /\ bit_parms = [bit_size |-> 0, scale_bits |-> 0]
    /\ bit_x = 0
    /\ bit_plain = <<>>
    /\ x_enc = <<>>
    /\ after_enc = <<>>
    /\ bit_raised = "ok"

\* The calls of square_and_multiply have not run.
SqmIdle ==
    /\ cipher = <<>>
    /\ res = <<>>
    /\ exp = 0
    /\ binary_exp = <<>>
    /\ sqm_pc = "idle"
    /\ sqm_raised = ""
    /\ entry = <<>>

\* The cells of comparison.ipynb have not run.
CmpIdle ==
    /\ store = <<>>
    /\ cmp_cell = 0
    /\ cmp_call = <<>>
    /\ cmp_raised = ""

----------------------------------------------------------------------------
\* Arithmetic helpers.

Max(m, n) == IF m >= n THEN m ELSE n

RECURSIVE Product(_)
Product(s) == IF Len(s) = 0 THEN 1 ELSE s[1] * Product(Tail(s))

Last(s) == s[Len(s)]

DropLast(s) == SubSeq(s, 1, Len(s) - 1)

----------------------------------------------------------------------------
\* Encryption parameters and parms_id.

\* parms_id of default-constructed objects (printed as [0, 0, 0, 0]).
ParmsIdZero == <<>>

\* The hash of the parameter set: it changes when any parameter changes.
ParmsId(p) == <<p.scheme, p.plain_modulus, p.coeff_modulus>>

\* A parms_id that belongs to no node of this context's chain.
ForeignParmsId == <<"other">>

\* BFV needs plain_modulus not larger than the remaining coeff_modulus.
ParmsValid(p) ==
    /\ Len(p.coeff_modulus) >= 1
    /\ (p.scheme = "BFV" => p.plain_modulus <= Product(p.coeff_modulus))

\* Mutation: the first prime is removed instead of the last.
NextParmsDropFirst(p) == [p EXCEPT !.coeff_modulus = Tail(@)]

\* The same parameters with the last coeff_modulus prime removed.
NextParms(p) == [p EXCEPT !.coeff_modulus = DropLast(@)]

\* The parameter sets of the chain, key level first: each removes the last
\* prime of the one before, until the parameter set is no longer valid.
RECURSIVE ChainParms(_)
ChainParms(p) ==
    IF Len(p.coeff_modulus) > 1 /\ ParmsValid(NextParms(p))
    THEN <<p>> \o ChainParms(NextParms(p))
    ELSE <<p>>

\* Mutation: the chain indices are counted from 1.
BuildChainFromOne(root) ==
    LET ps == ChainParms(root)
    IN  [i \in 1..Len(ps) |->
            [parms_id    |-> ParmsId(ps[i]),
             parms       |-> ps[i],
             chain_index |-> Len(ps) - i + 1]]

\* The ContextData list SEALContext creates: the last set has chain index 0.
BuildChain(root) ==
    LET ps == ChainParms(root)
    IN  [i \in 1..Len(ps) |->
            [parms_id    |-> ParmsId(ps[i]),
             parms       |-> ps[i],
             chain_index |-> Len(ps) - i]]

\* plain_modulus values tried for BFV: one that leaves every shorter
\* coeff_modulus valid, one that ends the chain early.
PlainModuli == {2, 4}

CandidateParms ==
    { [scheme |-> "CKKS", plain_modulus |-> 0,
       coeff_modulus |-> SubSeq(PrimePool, 1, n)] : n \in 2..CkksPrimes }
    \cup
    { [scheme |-> "BFV", plain_modulus |-> t,
       coeff_modulus |-> SubSeq(PrimePool, 1, n)] :
          t \in PlainModuli, n \in 2..MaxPrimes }

\* The parameter sets a notebook sets up: valid, and with a data level
\* below the key level to encrypt at.
RootParms ==
    { p \in CandidateParms : ParmsValid(p) /\ Len(ChainParms(p)) >= 2 }

----------------------------------------------------------------------------
\* Accessors of the context.

ContextCreated == Len(chain) > 0

KeyContextData == chain[1]

FirstContextData == chain[2]

LastContextData == chain[Len(chain)]

KeyParmsId == KeyContextData.parms_id

FirstParmsId == FirstContextData.parms_id

ChainParmsIds == { chain[i].parms_id : i \in 1..Len(chain) }

OnChain(pid) == \E i \in 1..Len(chain) : chain[i].parms_id = pid

\* context.get_context_data(parms_id)
GetContextData(pid) == chain[CHOOSE i \in 1..Len(chain) : chain[i].parms_id = pid]

ChainIndex(pid) == GetContextData(pid).chain_index

HasNext(pid) == ChainIndex(pid) > 0

\* next_context_data(): the node one level lower.
NextContextData(pid) ==
    chain[CHOOSE i \in 1..Len(chain) : chain[i].chain_index = ChainIndex(pid) - 1]

----------------------------------------------------------------------------
\* Scales.

UnitScale == [exp |-> 0, den |-> 1]

EncodeScale == [exp |-> ScaleExp, den |-> 1]

ScaleTimes(s, t) == [exp |-> s.exp + t.exp, den |-> s.den * t.den]

ScaleOver(s, p) == [exp |-> s.exp, den |-> s.den * p]

----------------------------------------------------------------------------
\* Ciphertext objects.

\* seal.Ciphertext(): no data yet.
EmptyCt == [parms_id |-> ParmsIdZero, size |-> 0, scale |-> UnitScale, drops |-> 0]

IsCt(c) == c.size >= 2

\* encryptor.encrypt(plain, c): size 2 at the first data level; a CKKS
\* ciphertext takes the scale the plaintext was encoded with.
FreshCt ==
    [parms_id |-> FirstParmsId,
     size     |-> 2,
     scale    |-> IF parms.scheme = "CKKS" THEN EncodeScale ELSE UnitScale,
     drops    |-> 0]

----------------------------------------------------------------------------
Init ==
    /\ parms \in RootParms
    /\ chain = <<>>
    /\ keys = [secret |-> ParmsIdZero, public |-> ParmsIdZero, relin |-> ParmsIdZero]
    /\ ct = [r \in Regs |-> EmptyCt]
    /\ last = "ok"
    /\ CtxIdle
    /\ BatchIdle
    /\ BfvIdle
    /\ NoiseIdle
    /\ CkksIdle
    /\ BitIdle
    /\ SqmIdle
    /\ CmpIdle

\* context = seal.SEALContext(parms, True, SEC_LEVEL_TYPE.TC128)
CreateContext ==
    /\ ~ContextCreated
    /\ chain' = BuildChain(parms)
    /\ UNCHANGED <<parms, keys, ct, last>>
    /\ UNCHANGED notEval

----------------------------------------------------------------------------
\* Keys: all key objects are created at the key level.

\* Mutation: the keys are tagged with the first data level.
KeyTagFirstLevel == FirstParmsId

KeyLevelTag == KeyParmsId

\* keygen = seal.KeyGenerator(context); secret_key = keygen.secret_key()
KeyGenerator ==
    /\ ContextCreated
    /\ keys.secret = ParmsIdZero
    /\ keys' = [keys EXCEPT !.secret = KeyLevelTag]
    /\ UNCHANGED <<parms, chain, ct, last>>
    /\ UNCHANGED notEval

\* public_key = seal.PublicKey(); keygen.create_public_key(public_key)
CreatePublicKey ==
    /\ keys.secret # ParmsIdZero
    /\ keys.public = ParmsIdZero
    /\ keys' = [keys EXCEPT !.public = KeyLevelTag]
    /\ UNCHANGED <<parms, chain, ct, last>>
    /\ UNCHANGED notEval

\* relin_keys = seal.RelinKeys(); keygen.create_relin_keys(relin_keys)
CreateRelinKeys ==
    /\ keys.public # ParmsIdZero
    /\ keys.relin = ParmsIdZero
    /\ keys' = [keys EXCEPT !.relin = KeyLevelTag]
    /\ UNCHANGED <<parms, chain, ct, last>>
    /\ UNCHANGED notEval

\* seal.Plaintext("1x^3 + 2x^2 + 3x^1 + 4"): a BFV plaintext is tied to no
\* level, its parms_id prints as [0, 0, 0, 0].
BfvPlain == [parms_id |-> ParmsIdZero, scale |-> UnitScale]

\* encoder.encode(value, scale, plain): a CKKS plaintext is at the first
\* data level and carries the scale it was encoded with.
CkksPlain == [parms_id |-> FirstParmsId, scale |-> EncodeScale]

\* The plaintexts a notebook hands to the encryptor of its context.
Plaintexts ==
    IF ~ContextCreated THEN {}
    ELSE IF parms.scheme = "CKKS" THEN {CkksPlain} ELSE {BfvPlain}

\* Mutation: the scale of the plaintext is not carried over.
EncryptResultUnitScale(p) ==
    [parms_id |-> IF p.parms_id = ParmsIdZero THEN FirstParmsId ELSE p.parms_id,
     size     |-> 2,
     scale    |-> UnitScale,
     drops    |-> 0]

\* The ciphertext of plaintext p: size 2, with the scale of p, at the level
\* of p or, for a plaintext tied to no level, at the first data level.
EncryptResult(p) ==
    [parms_id |-> IF p.parms_id = ParmsIdZero THEN FirstParmsId ELSE p.parms_id,
     size     |-> 2,
     scale    |-> p.scale,
     drops    |-> 0]

\* encryptor.encrypt(p, c) with seal.Encryptor(context, public_key)
EncryptPlain(p, c) ==
    /\ keys.public # ParmsIdZero
    /\ ct' = [ct EXCEPT ![c] = EncryptResult(p)]
    /\ last' = "ok"
    /\ UNCHANGED <<parms, chain, keys>>
    /\ UNCHANGED notEval

\* encryptor.encrypt(x_plain, c) for the plaintexts of the notebooks
Encrypt(c) == \E p \in Plaintexts : EncryptPlain(p, c)

----------------------------------------------------------------------------
\* Outcome of an evaluator call.

\* The call returns: d holds the result.
Accept(d, result) ==
    /\ last' = "ok"
    /\ ct' = [ct EXCEPT ![d] = result]

\* Mutation: the call raises after it has emptied the ciphertext objects.
RejectAndClear(error) ==
    /\ last' = error
    /\ ct' = [r \in Regs |-> EmptyCt]

\* The call raises: no ciphertext is touched.
Reject(error) ==
    /\ last' = error
    /\ ct' = ct

----------------------------------------------------------------------------
\* add / sub

\* Operands must be at the same parameters ...
SameParms(u, v) == u.parms_id = v.parms_id

\* Mutation: the scales of the operands are not compared.
AnyScale(u, v) == TRUE

\* ... and carry the same scale.
SameScale(u, v) == u.scale = v.scale

AddResult(u, v) == [u EXCEPT !.size = Max(u.size, v.size)]

\* Addition and subtraction share their checks and their effect on
\* (parms_id, size, scale).
AddSub(a, b, d) ==
    /\ IsCt(ct[a]) /\ IsCt(ct[b])
    /\ IF ~SameParms(ct[a], ct[b]) THEN Reject("LevelMismatch")
       ELSE IF ~SameScale(ct[a], ct[b]) THEN Reject("ScaleMismatch")
       ELSE Accept(d, AddResult(ct[a], ct[b]))
    /\ UNCHANGED <<parms, chain, keys>>
    /\ UNCHANGED notEval

\* evaluator.add(a, b, d); d = a is add_inplace.
Add(a, b, d) == AddSub(a, b, d)

\* evaluator.sub(a, b, d); d = a is sub_inplace.
Sub(a, b, d) == AddSub(a, b, d)

----------------------------------------------------------------------------
\* multiply / square

\* Mutation: the sizes are added.
MultiplySizeSum(m, n) == m + n

\* Inputs of size M and N give an output of size M+N-1.
MultiplySize(m, n) == m + n - 1

MultiplyScale(s, t) == ScaleTimes(s, t)

MultiplyResult(u, v) ==
    [u EXCEPT !.size = MultiplySize(u.size, v.size),
              !.scale = MultiplyScale(u.scale, v.scale)]

\* The products the model explores.
WithinBounds(u, v) ==
    /\ u.size + v.size - 1 <= MaxSize
    /\ u.scale.exp + v.scale.exp <= MaxScaleExp

\* evaluator.multiply(a, b, d); d = a is multiply_inplace.
Multiply(a, b, d) ==
    /\ IsCt(ct[a]) /\ IsCt(ct[b])
    /\ WithinBounds(ct[a], ct[b])
    /\ IF ~SameParms(ct[a], ct[b]) THEN Reject("LevelMismatch")
       ELSE Accept(d, MultiplyResult(ct[a], ct[b]))
    /\ UNCHANGED <<parms, chain, keys>>
    /\ UNCHANGED notEval

\* evaluator.square(a, d); d = a is square_inplace.
Square(a, d) ==
    /\ IsCt(ct[a])
    /\ WithinBounds(ct[a], ct[a])
    /\ Accept(d, MultiplyResult(ct[a], ct[a]))
    /\ UNCHANGED <<parms, chain, keys>>
    /\ UNCHANGED notEval

----------------------------------------------------------------------------
\* relinearize

\* Mutation: any ciphertext above size 2 is accepted.
RelinearizableAbove2(u) == u.size > 2

\* Only size 3 ciphertexts can be relinearized, down to size 2.
Relinearizable(u) == u.size = 3

RelinKeysUsable == keys.relin = KeyParmsId

\* Mutation: relinearization drops one polynomial whatever the size.
RelinearizeOneLess(u) == [u EXCEPT !.size = IF @ > 3 THEN @ - 1 ELSE 3]

RelinearizeResult(u) == [u EXCEPT !.size = 2]

\* evaluator.relinearize_inplace(a, relin_keys)
Relinearize(a) ==
    /\ IsCt(ct[a])
    /\ IF Relinearizable(ct[a]) /\ RelinKeysUsable
       THEN Accept(a, RelinearizeResult(ct[a]))
       ELSE Reject("RelinearizationError")
    /\ UNCHANGED <<parms, chain, keys>>
    /\ UNCHANGED notEval

----------------------------------------------------------------------------
\* Level lowering: modulus switching and rescaling.

\* Mutation: the special prime is taken as the removed prime.
DroppedSpecialPrime(u) == Last(parms.coeff_modulus)

\* The prime that leaves coeff_modulus when u goes one level down.
DroppedPrime(u) == Last(GetContextData(u.parms_id).parms.coeff_modulus)

\* Mutation: the switch goes straight to the last level.
ModSwitchLastResult(u) ==
    [u EXCEPT !.parms_id = LastContextData.parms_id,
              !.drops = @ + 1]

\* Mutation: the switch divides the scale by the prime it removes, as a
\* rescaling does.
ModSwitchNextScaled(u) ==
    [u EXCEPT !.parms_id = NextContextData(u.parms_id).parms_id,
              !.scale = ScaleOver(u.scale, DroppedPrime(u)),
              !.drops = @ + 1]

\* One level down the chain; the scale is not changed.
ModSwitchNextResult(u) ==
    [u EXCEPT !.parms_id = NextContextData(u.parms_id).parms_id,
              !.drops = @ + 1]

\* Rescaling from scale S with last prime P changes the scale to S/P.
RescaleScale(s, p) == ScaleOver(s, p)

\* One level down the chain, scaled down by the removed prime.
RescaleNextResult(u) ==
    [u EXCEPT !.parms_id = NextContextData(u.parms_id).parms_id,
              !.scale = RescaleScale(u.scale, DroppedPrime(u)),
              !.drops = @ + 1]

\* evaluator.mod_switch_to_next_inplace(a)
ModSwitchToNext(a) ==
    /\ IsCt(ct[a])
    /\ IF HasNext(ct[a].parms_id)
       THEN Accept(a, ModSwitchNextResult(ct[a]))
       ELSE Reject("ChainExhausted")
    /\ UNCHANGED <<parms, chain, keys>>
    /\ UNCHANGED notEval

\* evaluator.rescale_to_next_inplace(a), CKKS only
RescaleToNext(a) ==
    /\ parms.scheme = "CKKS"
    /\ IsCt(ct[a])
    /\ IF HasNext(ct[a].parms_id)
       THEN Accept(a, RescaleNextResult(ct[a]))
       ELSE Reject("ChainExhausted")
    /\ UNCHANGED <<parms, chain, keys>>
    /\ UNCHANGED notEval

\* Mutation: any node of the chain is accepted as target.
TargetOnChain(u, target) == OnChain(target)

\* It is impossible to switch up in the chain: the target is a node of the
\* chain at or below the level of u.
TargetReachable(u, target) ==
    /\ OnChain(target)
    /\ ChainIndex(target) <= ChainIndex(u.parms_id)

\* Mutation: a single step is taken whatever the distance to the target.
ModSwitchDownOnce(u, target) ==
    IF u.parms_id = target \/ ~HasNext(u.parms_id) THEN u
    ELSE ModSwitchNextResult(u)

\* The single step repeated until u is at the target (the chain has no
\* further node to step to once u is at its last level).
RECURSIVE ModSwitchDown(_, _)
ModSwitchDown(u, target) ==
    IF u.parms_id = target \/ ~HasNext(u.parms_id) THEN u
    ELSE ModSwitchDown(ModSwitchNextResult(u), target)

RECURSIVE RescaleDown(_, _)
RescaleDown(u, target) ==
    IF u.parms_id = target \/ ~HasNext(u.parms_id) THEN u
    ELSE RescaleDown(RescaleNextResult(u), target)

\* The parms_id values a caller can pass: those of the chain (the key level
\* included) and one of another context.
Targets == ChainParmsIds \cup {ForeignParmsId}

\* evaluator.mod_switch_to_inplace(a, target)
ModSwitchTo(a, target) ==
    /\ IsCt(ct[a])
    /\ IF TargetReachable(ct[a], target)
       THEN Accept(a, ModSwitchDown(ct[a], target))
       ELSE Reject("InvalidTarget")
    /\ UNCHANGED <<parms, chain, keys>>
    /\ UNCHANGED notEval

\* evaluator.rescale_to_inplace(a, target), CKKS only
RescaleTo(a, target) ==
    /\ parms.scheme = "CKKS"
    /\ IsCt(ct[a])
    /\ IF TargetReachable(ct[a], target)
       THEN Accept(a, RescaleDown(ct[a], target))
       ELSE Reject("InvalidTarget")
    /\ UNCHANGED <<parms, chain, keys>>
    /\ UNCHANGED notEval

----------------------------------------------------------------------------
Next ==
    \/ CreateContext
    \/ KeyGenerator
    \/ CreatePublicKey
    \/ CreateRelinKeys
    \/ \E c \in Regs : Encrypt(c)
    \/ \E a, b, d \in Regs : Add(a, b, d)
    \/ \E a, b, d \in Regs : Sub(a, b, d)
    \/ \E a, b, d \in Regs : Multiply(a, b, d)
    \/ \E a, d \in Regs : Square(a, d)
    \/ \E a \in Regs : Relinearize(a)
    \/ \E a \in Regs : ModSwitchToNext(a)
    \/ \E a \in Regs : RescaleToNext(a)
    \/ \E a \in Regs, target \in Targets : ModSwitchTo(a, target)
    \/ \E a \in Regs, target \in Targets : RescaleTo(a, target)

Spec == Init /\ [][Next]_vars

----------------------------------------------------------------------------
\* Properties.

Level(u) == ChainIndex(u.parms_id)

SameLevel(u, v) == u.parms_id = v.parms_id

Others(d) == Regs \ {d}

\* C1: multiplying (or squaring) ciphertexts of sizes M and N at the same
\* level is accepted and gives a ciphertext of size M+N-1 at that level whose
\* scale is the product of the operand scales.
C1_MultiplySizeAndScale ==
    [][\A a, b, d \in Regs :
          ((Multiply(a, b, d) \/ (a = b /\ Square(a, d))) /\ SameLevel(ct[a], ct[b]))
          => /\ last' = "ok"
             /\ ct'[d].size = ct[a].size + ct[b].size - 1
             /\ ct'[d].parms_id = ct[a].parms_id
             /\ ct'[d].scale.exp = ct[a].scale.exp + ct[b].scale.exp
             /\ ct'[d].scale.den = ct[a].scale.den * ct[b].scale.den]_vars

\* A CKKS square of a fresh ciphertext (size 3, scale S^2) next to the size 4
\* product of that square with a fresh ciphertext (scale S^3).
C1_Witness ==
    /\ parms.scheme = "CKKS"
    /\ last = "ok"
    /\ ct["x"].size = 3
    /\ ct["x"].scale = [exp |-> 2 * ScaleExp, den |-> 1]
    /\ ct["y"].size = 4
    /\ ct["y"].scale = [exp |-> 3 * ScaleExp, den |-> 1]

\* C2: relinearizing a size 3 ciphertext with the relinearization keys of
\* the key level is accepted, returns it to size 2 and leaves its level and
\* scale as they were.
C2_RelinearizeToSize2 ==
    [][\A a \in Regs :
          (Relinearize(a) /\ ct[a].size = 3 /\ keys.relin = KeyParmsId)
          => /\ last' = "ok"
             /\ ct'[a].size = 2
             /\ ct'[a].parms_id = ct[a].parms_id
             /\ ct'[a].scale = ct[a].scale
             /\ \A r \in Others(a) : ct'[r] = ct[r]]_vars

\* A relinearized CKKS square: size 2 with scale S^2 at the first data level.
C2_Witness ==
    /\ ContextCreated
    /\ parms.scheme = "CKKS"
    /\ keys.relin = KeyParmsId
    /\ last = "ok"
    /\ \E r \in Regs :
          /\ ct[r].size = 2
          /\ ct[r].parms_id = FirstParmsId
          /\ ct[r].scale = [exp |-> 2 * ScaleExp, den |-> 1]

\* C3: relinearize is accepted only from size 3 with usable keys: on size 2,
\* on a size above 3, or with relinearization keys that are not at the key
\* level, it fails with RelinearizationError and no ciphertext changes.
C3_RelinearizeRejects ==
    [][\A a \in Regs :
          Relinearize(a)
          => /\ (ct[a].size # 3 \/ keys.relin # KeyParmsId)
                   => (last' = "RelinearizationError" /\ ct' = ct)
             /\ last' = "ok" => ct[a].size = 3]_vars

\* A rejected relinearization when every ciphertext has size 5.
C3_Witness ==
    /\ ContextCreated
    /\ last = "RelinearizationError"
    /\ keys.relin = KeyParmsId
    /\ \A r \in Regs : ct[r].size = 5

\* The steps that lower a ciphertext by one level.
StepDown(a) == ModSwitchToNext(a) \/ RescaleToNext(a)

\* The original statement of the step count, on a chain counted with its
\* key-level root: (chain length - 1) steps from the first data level to
\* index 0.
C4_StepsChainLengthMinus1 ==
    \A r \in Regs :
        (IsCt(ct[r]) /\ Level(ct[r]) = 0) => ct[r].drops = Len(chain) - 1

\* C4: a ciphertext encrypted at the first data level is at index
\* (first index - k) after k successful single-level steps, so it is at
\* index 0 after exactly (chain length - 2) of them, the chain counted with
\* its key-level root; one more mod_switch_to_next or rescale_to_next fails
\* with ChainExhausted and leaves it where it is.
C4_StepsToLastLevel ==
    /\ [](\A r \in Regs :
             IsCt(ct[r])
             => /\ Level(ct[r]) = FirstContextData.chain_index - ct[r].drops
                /\ Level(ct[r]) = 0 <=> ct[r].drops = Len(chain) - 2)
    /\ [][\A a \in Regs :
             /\ (StepDown(a) /\ Level(ct[a]) > 0)
                   => (last' = "ok" /\ ct'[a].drops = ct[a].drops + 1)
             /\ (StepDown(a) /\ Level(ct[a]) = 0)
                   => (last' = "ChainExhausted" /\ ct' = ct)]_vars

\* A refused step on a ciphertext that went down the longest chain from its
\* first data level to index 0.
C4_Witness ==
    /\ ContextCreated
    /\ last = "ChainExhausted"
    /\ Len(chain) = MaxPrimes
    /\ \E r \in Regs :
          /\ IsCt(ct[r])
          /\ Level(ct[r]) = 0
          /\ ct[r].drops = MaxPrimes - 2

\* C5: the chain built from a valid root starts at the root, its indices go
\* down by one to index 0 at the last node, every node below the root has
\* its parent's coeff_modulus without the last prime, the chain stops where
\* the next derivation is invalid, and only the root is the key level.
C5_ChainShape ==
    ContextCreated
    => /\ chain[1].parms = parms
       /\ chain[Len(chain)].chain_index = 0
       /\ \A i \in 1..(Len(chain) - 1) :
             /\ chain[i + 1].chain_index = chain[i].chain_index - 1
             /\ chain[i + 1].parms.coeff_modulus =
                   SubSeq(chain[i].parms.coeff_modulus, 1,
                          Len(chain[i].parms.coeff_modulus) - 1)
             /\ chain[i + 1].parms.scheme = chain[i].parms.scheme
             /\ chain[i + 1].parms.plain_modulus = chain[i].parms.plain_modulus
       /\ LET m == chain[Len(chain)].parms.coeff_modulus
          IN  \/ Len(m) = 1
              \/ /\ parms.scheme = "BFV"
                 /\ parms.plain_modulus > Product(SubSeq(m, 1, Len(m) - 1))
       /\ \A i \in 1..Len(chain) :
             /\ chain[i].parms_id = KeyParmsId <=> i = 1
             /\ i > 1 => chain[i].chain_index < KeyContextData.chain_index

\* A BFV chain of three nodes from four primes: the plain modulus stops it.
C5_Witness ==
    /\ parms.scheme = "BFV"
    /\ Len(parms.coeff_modulus) = 4
    /\ Len(chain) = 3

SpecialPrime == Last(parms.coeff_modulus)

Primes(m) == { m[i] : i \in 1..Len(m) }

\* C6: the special prime, the last prime of the root, is in the key level
\* and in no data level; the coeff_modulus of every data level is a proper
\* prefix of the root's list.
C6_SpecialPrimeAtKeyLevelOnly ==
    ContextCreated
    => /\ SpecialPrime \in Primes(KeyContextData.parms.coeff_modulus)
       /\ \A i \in 2..Len(chain) :
             LET m == chain[i].parms.coeff_modulus
             IN  /\ SpecialPrime \notin Primes(m)
                 /\ Len(m) < Len(parms.coeff_modulus)
                 /\ m = SubSeq(parms.coeff_modulus, 1, Len(m))

\* A CKKS chain with three data levels.
C6_Witness ==
    /\ parms.scheme = "CKKS"
    /\ Len(chain) = 4
    /\ Len(LastContextData.parms.coeff_modulus) = 1

KeyNames == {"secret", "public", "relin"}

\* C7: every generated key carries the parms_id of the key level, every
\* ciphertext is on the chain strictly below the key level, and encryption
\* puts the ciphertext at the first data level (key index - 1).
C7_KeysAtKeyLevelDataBelow ==
    /\ [](/\ \A k \in KeyNames :
                keys[k] # ParmsIdZero
                => /\ ContextCreated
                   /\ keys[k] = chain[1].parms_id
                   /\ \A i \in 1..Len(chain) :
                         chain[i].chain_index <= ChainIndex(keys[k])
          /\ \A r \in Regs :
                IsCt(ct[r])
                => /\ OnChain(ct[r].parms_id)
                   /\ ct[r].parms_id # KeyParmsId
                   /\ Level(ct[r]) < KeyContextData.chain_index)
    /\ [][\A c \in Regs :
             Encrypt(c) => Level(ct'[c]) = KeyContextData.chain_index - 1]_vars

\* All keys generated, one ciphertext fresh and one at the last level.
C7_Witness ==
    /\ \A k \in KeyNames : keys[k] # ParmsIdZero
    /\ IsCt(ct["x"]) /\ IsCt(ct["y"])
    /\ ct["x"].parms_id = FirstParmsId
    /\ ct["y"].parms_id = LastContextData.parms_id
    /\ Len(chain) >= 4

LowersInPlace(a) ==
    \/ Relinearize(a)
    \/ ModSwitchToNext(a)
    \/ RescaleToNext(a)
    \/ \E target \in Targets : ModSwitchTo(a, target) \/ RescaleTo(a, target)

Combines(a, b, d) ==
    \/ Add(a, b, d)
    \/ Sub(a, b, d)
    \/ Multiply(a, b, d)
    \/ (a = b /\ Square(a, d))

\* The step leaves register d holding a ciphertext above the level of the
\* ciphertext in register a.
Above(d, a) ==
    /\ IsCt(ct[a]) /\ IsCt(ct'[d])
    /\ Level(ct'[d]) > Level(ct[a])

\* The parms_id values of the chain above the level of the ciphertext in
\* register a.
TargetsAbove(a) ==
    IF IsCt(ct[a])
    THEN { chain[i].parms_id :
              i \in { j \in 1..Len(chain) : chain[j].chain_index > Level(ct[a]) } }
    ELSE {}

\* The step reports an error and yet changes a ciphertext.
RefusedButChanged == last' # "ok" /\ ct' # ct

\* C8: no evaluator call raises a level. A step that leaves a ciphertext
\* above the level it had is no in-place call on it (relinearize,
\* mod_switch_to_next, rescale_to_next, mod_switch_to, rescale_to); a step
\* that returns a result above one of its operands is no add, sub, multiply
\* or square of them; a refused call changes no ciphertext; and mod_switch_to
\* or rescale_to with a target above the operand's level is refused with
\* InvalidTarget.
C8_LevelNeverIncreases ==
    [][\A a \in Regs :
          /\ (Above(a, a) \/ RefusedButChanged) => ~LowersInPlace(a)
          /\ \A b, d \in Regs :
                ( \/ last' = "ok" /\ (Above(d, a) \/ Above(d, b))
                  \/ RefusedButChanged )
                => ~Combines(a, b, d)
          /\ \A target \in TargetsAbove(a) :
                (ModSwitchTo(a, target) \/ RescaleTo(a, target))
                => (last' = "InvalidTarget" /\ ct' = ct)]_vars

\* A refused target while one ciphertext is at the last level and the other
\* two levels above it.
C8_Witness ==
    /\ ContextCreated
    /\ last = "InvalidTarget"
    /\ IsCt(ct["x"]) /\ IsCt(ct["y"])
    /\ Level(ct["x"]) = 0
    /\ Level(ct["y"]) = 2

\* C9: add and sub take operands at the same level with the same scale and
\* give a result of the larger of the two sizes at that level and scale;
\* operands at different levels are refused with LevelMismatch, operands at
\* one level with different scales with ScaleMismatch, and a refused call
\* changes no ciphertext: nothing is aligned for the caller.
C9_AddSubSameLevelAndScale ==
    [][\A a, b, d \in Regs :
          (Add(a, b, d) \/ Sub(a, b, d))
          => IF ct[a].parms_id # ct[b].parms_id
             THEN last' = "LevelMismatch" /\ ct' = ct
             ELSE IF ct[a].scale # ct[b].scale
             THEN last' = "ScaleMismatch" /\ ct' = ct
             ELSE /\ last' = "ok"
                  /\ ct'[d].size = Max(ct[a].size, ct[b].size)
                  /\ ct'[d].parms_id = ct[a].parms_id
                  /\ ct'[d].scale = ct[a].scale
                  /\ \A r \in Others(d) : ct'[r] = ct[r]]_vars

\* An addition refused for its scales: both operands one level below the
\* first, one rescaled and the other only switched down.
C9_Witness ==
    /\ ContextCreated
    /\ last = "ScaleMismatch"
    /\ IsCt(ct["x"]) /\ IsCt(ct["y"])
    /\ ct["x"].parms_id = ct["y"].parms_id
    /\ ct["x"].parms_id # FirstParmsId
    /\ ct["x"].scale # ct["y"].scale
    /\ ct["x"].size # ct["y"].size

\* The primes removed by the first and by the second rescaling.
P1 == Last(chain[2].parms.coeff_modulus)

P2 == Last(chain[3].parms.coeff_modulus)

\* C10: rescale_to_next on a ciphertext above the last level is accepted,
\* takes it exactly one level down, divides its scale by the prime it drops
\* (the last prime of the level it leaves) and keeps its size; so a product
\* of scale S^3/P1, one level below the first, has scale S^3/P1/P2 after one
\* rescaling.
C10_RescaleDividesByDroppedPrime ==
    [][\A a \in Regs :
          (RescaleToNext(a) /\ Level(ct[a]) > 0)
          => /\ last' = "ok"
             /\ Level(ct'[a]) = Level(ct[a]) - 1
             /\ ct'[a].scale.exp = ct[a].scale.exp
             /\ ct'[a].scale.den =
                   ct[a].scale.den
                   * Last(GetContextData(ct[a].parms_id).parms.coeff_modulus)
             /\ ct'[a].size = ct[a].size
             /\ ( /\ ct[a].parms_id = chain[3].parms_id
                  /\ ct[a].scale = [exp |-> 3 * ScaleExp, den |-> P1] )
                   => ct'[a].scale = [exp |-> 3 * ScaleExp, den |-> P1 * P2]]_vars

\* A size 3 ciphertext of scale S^3/P1/P2 two levels below the first.
C10_Witness ==
    /\ Len(chain) >= 4
    /\ \E r \in Regs :
          /\ ct[r].size = 3
          /\ ct[r].parms_id = chain[4].parms_id
          /\ ct[r].scale = [exp |-> 3 * ScaleExp, den |-> P1 * P2]

\* The single-level results applied n times to u.
RECURSIVE ModSwitchSteps(_, _)
ModSwitchSteps(u, n) ==
    IF n = 0 THEN u ELSE ModSwitchSteps(ModSwitchNextResult(u), n - 1)

RECURSIVE RescaleSteps(_, _)
RescaleSteps(u, n) ==
    IF n = 0 THEN u ELSE RescaleSteps(RescaleNextResult(u), n - 1)

\* The parms_id values of the chain at or below the level of the ciphertext
\* in register a.
TargetsAtOrBelow(a) ==
    IF IsCt(ct[a])
    THEN { chain[i].parms_id :
              i \in { j \in 1..Len(chain) : chain[j].chain_index <= Level(ct[a]) } }
    ELSE {}

\* C11: mod_switch_to / rescale_to with a target on the chain at index j, at
\* or below the index i of the ciphertext, is accepted and leaves exactly
\* what i - j single-level steps leave (the ciphertext itself when j = i),
\* at the target; with a target above the ciphertext or on no node of the
\* chain the call ends InvalidTarget.
C11_SwitchToIsRepeatedStep ==
    [][\A a \in Regs :
          /\ \A target \in TargetsAtOrBelow(a) :
                LET n == Level(ct[a]) - ChainIndex(target)
                IN  /\ ModSwitchTo(a, target)
                          => /\ last' = "ok"
                             /\ ct'[a] = ModSwitchSteps(ct[a], n)
                             /\ ct'[a].parms_id = target
                    /\ RescaleTo(a, target)
                          => /\ last' = "ok"
                             /\ ct'[a] = RescaleSteps(ct[a], n)
                             /\ ct'[a].parms_id = target
          /\ \A target \in TargetsAbove(a) \cup {ForeignParmsId} :
                (ModSwitchTo(a, target) \/ RescaleTo(a, target))
                => last' = "InvalidTarget"]_vars

\* A rescaled-to ciphertext two levels below the first: both dropped primes
\* divided out of the encoding scale.
C11_Witness ==
    /\ Len(chain) >= 4
    /\ last = "ok"
    /\ \E r \in Regs :
          /\ ct[r].size = 2
          /\ ct[r].parms_id = chain[4].parms_id
          /\ ct[r].scale = [exp |-> ScaleExp, den |-> P1 * P2]

\* The outcomes of a refused call.
Errors ==
    {"LevelMismatch", "ScaleMismatch", "ChainExhausted",
     "RelinearizationError", "InvalidTarget"}

\* The call on the ciphertext in register a raises the named error.
Raises(error, a) ==
    CASE error = "LevelMismatch" ->
            \E b, d \in Regs :
                /\ ~SameLevel(ct[a], ct[b])
                /\ Add(a, b, d) \/ Sub(a, b, d) \/ Multiply(a, b, d)
      [] error = "ScaleMismatch" ->
            \E b, d \in Regs :
                /\ SameLevel(ct[a], ct[b])
                /\ ct[a].scale # ct[b].scale
                /\ Add(a, b, d) \/ Sub(a, b, d)
      [] error = "ChainExhausted" ->
            Level(ct[a]) = 0 /\ StepDown(a)
      [] error = "RelinearizationError" ->
            (ct[a].size # 3 \/ keys.relin # KeyParmsId) /\ Relinearize(a)
      [] error = "InvalidTarget" ->
            \E target \in TargetsAbove(a) \cup {ForeignParmsId} :
                ModSwitchTo(a, target) \/ RescaleTo(a, target)

\* C12: a refused evaluator call changes nothing: every step that ends with
\* one of the five errors leaves the parms_id, size and scale of every
\* ciphertext as they were (so a mod_switch_to / rescale_to with an
\* unreachable target descends no level), and each call whose precondition
\* fails ends with its error.
C12_RejectedLeavesOperands ==
    [][/\ last' \in Errors
             => \A r \in Regs :
                   /\ ct'[r].parms_id = ct[r].parms_id
                   /\ ct'[r].size = ct[r].size
                   /\ ct'[r].scale = ct[r].scale
                   /\ ct'[r].drops = ct[r].drops
       /\ \A a \in Regs :
             IsCt(ct[a])
             => \A error \in Errors \ {last'} : ~Raises(error, a)]_vars

\* A refused addition of a fresh ciphertext and one that was rescaled to the
\* last level.
C12_Witness ==
    /\ ContextCreated
    /\ last = "LevelMismatch"
    /\ IsCt(ct["x"]) /\ IsCt(ct["y"])
    /\ ct["x"].parms_id = FirstParmsId
    /\ ct["y"].parms_id = LastContextData.parms_id
    /\ ct["y"].scale.den > 1

----------------------------------------------------------------------------
\* Parameter validation: SEALContext(parms, True, SEC_LEVEL_TYPE.TC128)
\* called on parameters given by their poly_modulus_degree and the bit
\* sizes of the coeff_modulus primes.

RECURSIVE Sum(_)
Sum(s) == IF Len(s) = 0 THEN 0 ELSE s[1] + Sum(Tail(s))

Degrees == {1024, 2048, 4096, 8192, 16384, 32768}

\* Mutation: the table is read one row too low.
MaxBitCountRowBelow(n) ==
    CASE n = 1024  -> 54
      [] n = 2048  -> 109
      [] n = 4096  -> 218
      [] n = 8192  -> 438
      [] n = 16384 -> 881
      [] n = 32768 -> 881

\* CoeffModulus.MaxBitCount(poly_modulus_degree, TC128)
MaxBitCount(n) ==
    CASE n = 1024  -> 27
      [] n = 2048  -> 54
      [] n = 4096  -> 109
      [] n = 8192  -> 218
      [] n = 16384 -> 438
      [] n = 32768 -> 881

\* CoeffModulus.BFVDefault(4096, TC128): three primes, 109 bits in all.
BFVDefault4096 == <<36, 36, 37>>

\* The coeff_modulus choices of the notebooks, as prime bit sizes.
CoeffBitLists ==
    { BFVDefault4096,
      <<36, 36, 36>>,
      <<50, 30, 30, 50, 50>>,
      <<60, 40, 40, 60>>,
      <<40, 40, 40, 40, 40>>,
      <<50, 60>>,
      <<27>>,
      <<60, 50, 50, 50, 50, 50, 50, 50, 50, 50, 50, 60>> }

ValidMessage == "valid"

NotCompliantMessage ==
    "parameters are not compliant with HomomorphicEncryption.org security standard"

\* The security check of SEALContext with enforcement at TC128.
SecurityCompliant(p) == Sum(p.coeff_bits) <= MaxBitCount(p.poly_modulus_degree)

\* context.parameters_error_message()
ParametersErrorMessage(p) ==
    IF SecurityCompliant(p) THEN ValidMessage ELSE NotCompliantMessage

\* The coeff_modulus bit sizes of the chain built from compliant parameters,
\* key level first: the last prime is removed until one prime is left.
RECURSIVE ChainBits(_)
ChainBits(bits) ==
    IF Len(bits) > 1 THEN <<bits>> \o ChainBits(DropLast(bits)) ELSE <<bits>>

\* Mutation: the constructor throws away the reason for invalid parameters.
SealContextSilent(p) ==
    [message        |-> ValidMessage,
     parameters_set |-> SecurityCompliant(p),
     chain_bits     |-> IF SecurityCompliant(p) THEN ChainBits(p.coeff_bits) ELSE <<>>]

\* The object seal.SEALContext(p, True, TC128) returns.
SealContextOf(p) ==
    [message        |-> ParametersErrorMessage(p),
     parameters_set |-> SecurityCompliant(p),
     chain_bits     |-> IF SecurityCompliant(p) THEN ChainBits(p.coeff_bits) ELSE <<>>]

\* The evaluation notebooks have not run.
EvalIdle ==
    /\ parms = [scheme |-> "BFV", plain_modulus |-> 2, coeff_modulus |-> <<3, 5>>]
    /\ chain = <<>>
    /\ keys = [secret |-> ParmsIdZero, public |-> ParmsIdZero, relin |-> ParmsIdZero]
    /\ ct = [r \in Regs |-> EmptyCt]
    /\ last = "ok"

InitCtx ==
    /\ sealparms \in [poly_modulus_degree : Degrees, coeff_bits : CoeffBitLists]
    /\ sealctx = NoContext
    /\ raised = "ok"
    /\ EvalIdle
    /\ BatchIdle
    /\ BfvIdle
    /\ NoiseIdle
    /\ CkksIdle
    /\ BitIdle
    /\ SqmIdle
    /\ CmpIdle

\* parms.set_poly_modulus_degree(n)
SetPolyModulusDegree(n) ==
    /\ n # sealparms.poly_modulus_degree
    /\ sealparms' = [sealparms EXCEPT !.poly_modulus_degree = n]
    /\ raised' = "ok"
    /\ UNCHANGED sealctx
    /\ UNCHANGED notCtx

\* context = seal.SEALContext(parms, True, seal.SEC_LEVEL_TYPE.TC128): the
\* constructor returns for valid and for invalid parameters alike.
SealContext ==
    /\ sealctx' = SealContextOf(sealparms)
    /\ raised' = "ok"
    /\ UNCHANGED sealparms
    /\ UNCHANGED notCtx

\* keygen = seal.KeyGenerator(context): the validity of the parameters is
\* checked here.
SealKeyGenerator ==
    /\ sealctx # NoContext
    /\ raised' = IF sealctx.parameters_set THEN "ok" ELSE "ParameterValidationError"
    /\ UNCHANGED <<sealparms, sealctx>>
    /\ UNCHANGED notCtx

NextCtx ==
    \/ \E n \in Degrees : SetPolyModulusDegree(n)
    \/ SealContext
    \/ SealKeyGenerator

SpecCtx == InitCtx /\ [][NextCtx]_vars

BatchParameters ==
    { [poly_modulus_degree |-> 2, plain_modulus |-> 5],
      [poly_modulus_degree |-> 4, plain_modulus |-> 17] }

\* Values of the input matrix: the small values of the notebook and the
\* values around the plain_modulus.
PodValues(t) == {0, 1, 2, 3, t - 1, t, t + 1}

RECURSIVE SeqsUpTo(_, _)
\* The vectors over S of length at most n.
SeqsUpTo(S, n) ==
    IF n = 0 THEN {<<>>}
    ELSE LET shorter == SeqsUpTo(S, n - 1)
         IN  shorter \cup { Append(v, x) : v \in {w \in shorter : Len(w) = n - 1}, x \in S }

RECURSIVE PowMod(_, _, _)
PowMod(b, e, t) == IF e = 0 THEN 1 % t ELSE (b * PowMod(b, e - 1, t)) % t

\* A primitive 2N-th root of unity modulo T (N is a power of two).
Root(n, t) == CHOOSE g \in 2..(t - 1) : PowMod(g, n, t) = t - 1

InverseMod(a, t) == CHOOSE b \in 1..(t - 1) : (a * b) % t = 1

\* The power of the root slot i is read at: row one at the powers of 3, row
\* two at their inverses.
SlotExponent(i, n) ==
    IF i <= n \div 2
    THEN PowMod(3, i - 1, 2 * n)
    ELSE 2 * n - PowMod(3, i - (n \div 2) - 1, 2 * n)

\* The flattened matrix, missing slots 0.
PadSlots(v, n) == [i \in 1..n |-> IF i <= Len(v) THEN v[i] ELSE 0]

\* Interpolation without the factor 1/N.
BatchEncodeUnscaled(v, b) ==
    LET n == b.poly_modulus_degree
        t == b.plain_modulus
        inv == InverseMod(Root(n, t), t)
        w == PadSlots(v, n)
    IN  [j \in 1..n |->
            Sum([i \in 1..n |->
                    ((w[i] % t) * PowMod(inv, SlotExponent(i, n) * (j - 1), t)) % t]) % t]

\* batch_encoder.encode(values, plain): the coefficients of the polynomial
\* that takes the values, reduced modulo T, at the slots.
BatchEncodeCoeffs(v, b) ==
    LET n == b.poly_modulus_degree
        t == b.plain_modulus
        inv == InverseMod(Root(n, t), t)
        w == PadSlots(v, n)
    IN  [j \in 1..n |->
            (InverseMod(n, t) *
             Sum([i \in 1..n |->
                    ((w[i] % t) * PowMod(inv, SlotExponent(i, n) * (j - 1), t)) % t])) % t]

\* batch_encoder.decode_uint64(plain): the values of the polynomial at the
\* slots.
BatchDecodeSlots(p, b) ==
    LET n == b.poly_modulus_degree
        t == b.plain_modulus
        psi == Root(n, t)
    IN  [i \in 1..n |->
            Sum([j \in 1..n |->
                    (p[j] * PowMod(psi, SlotExponent(i, n) * (j - 1), t)) % t]) % t]

InitBatch ==
    /\ batchparms \in BatchParameters
    /\ pod_matrix \in SeqsUpTo(PodValues(batchparms.plain_modulus),
                               batchparms.poly_modulus_degree)
    /\ plain_matrix = <<>>
    /\ pod_result = <<>>
    /\ EvalIdle
    /\ CtxIdle
    /\ BfvIdle
    /\ NoiseIdle
    /\ CkksIdle
    /\ BitIdle
    /\ SqmIdle
    /\ CmpIdle

\* batch_encoder.encode(pod_matrix.tolist(), plain_matrix)
BatchEncode ==
    /\ Len(pod_matrix) <= batchparms.poly_modulus_degree
    /\ plain_matrix' = BatchEncodeCoeffs(pod_matrix, batchparms)
    /\ UNCHANGED <<batchparms, pod_matrix, pod_result>>
    /\ UNCHANGED notBatch

\* pod_result = batch_encoder.decode_uint64(plain_matrix)
BatchDecode ==
    /\ plain_matrix # <<>>
    /\ pod_result' = BatchDecodeSlots(plain_matrix, batchparms)
    /\ UNCHANGED <<batchparms, pod_matrix, plain_matrix>>
    /\ UNCHANGED notBatch

NextBatch ==
    \/ BatchEncode
    \/ BatchDecode

SpecBatch == InitBatch /\ [][NextBatch]_vars

\* C16: decoding the encoded matrix gives N slots, slot i holding the input
\* value reduced modulo T, or 0 where the input has no value for it.
C16_DecodeEncode ==
    pod_result # <<>> =>
        /\ Len(pod_result) = batchparms.poly_modulus_degree
        /\ \A i \in 1..Len(pod_result) :
              pod_result[i] = IF i <= Len(pod_matrix)
                              THEN pod_matrix[i] % batchparms.plain_modulus
                              ELSE 0

\* A matrix shorter than N with a value above the modulus was decoded.
C16_Witness ==
    /\ pod_result # <<>>
    /\ batchparms.poly_modulus_degree = 4
    /\ pod_matrix = <<1, 18, 3>>
    /\ pod_result = <<1, 1, 3, 0>>
    /\ plain_matrix # pod_result

(***************************************************************************)
(* 1_bfv_basics.ipynb: 4(x^2+1)(x+1)^2 over an encrypted x, first without  *)
(* and then with relinearization after every multiplication.  A ciphertext *)
(* is what it decrypts to (a constant polynomial modulo plain_modulus),    *)
(* its size and its invariant noise budget; the budgets are the ones the   *)
(* notebook prints.                                                        *)
(***************************************************************************)

\* Largest x explored (the notebook has x = 6).
MaxX == 12

\* parms.set_plain_modulus(1024)
PlainModulus == 1024

\* Noise budget in freshly encrypted x: 55 bits.
FreshNoiseBudget == 55

\* The noise budget a squaring takes: 55 bits before, 33 bits after.
SquareNoise == 22

RECURSIVE ToHex(_)
\* util.uint_to_hex_string and Plaintext.to_string: the hexadecimal digits,
\* most significant first.
ToHex(n) == IF n < 16 THEN <<n>> ELSE Append(ToHex(n \div 16), n % 16)

RECURSIVE FromHex(_)
\* seal.Plaintext(hex_string): the constant coefficient the digits denote.
FromHex(d) == IF Len(d) = 0 THEN 0 ELSE 16 * FromHex(DropLast(d)) + Last(d)

Min(m, n) == IF m <= n THEN m ELSE n

BfvRegs == {"x_encrypted", "x_sq_plus_one", "x_plus_one_sq", "encrypted_result",
            "x_squared", "x_plus_one"}

\* seal.Ciphertext()
BfvEmpty == [value |-> 0, size |-> 0, noise_budget |-> 0]

\* encryptor.encrypt(plain, destination)
BfvEncrypt(p) == [value |-> p % PlainModulus, size |-> 2, noise_budget |-> FreshNoiseBudget]

\* evaluator.add_plain(c, plain, destination)
BfvAddPlain(c, p) == [c EXCEPT !.value = (c.value + p) % PlainModulus]

\* evaluator.multiply_plain(c, plain, destination)
BfvMultiplyPlain(c, p) == [c EXCEPT !.value = (c.value * p) % PlainModulus]

\* evaluator.square(c, destination)
BfvSquare(c) ==
    [value |-> (c.value * c.value) % PlainModulus,
     size |-> 2 * c.size - 1,
     noise_budget |-> Max(0, c.noise_budget - SquareNoise)]

\* The noise budget a multiplication takes: 33 bits to 4 bits between two
\* ciphertexts of size 3, 33 bits to 10 bits between two of size 2.
MultiplyNoise(a, b) == IF a.size + b.size = 4 THEN 23 ELSE 29

\* A product that is not reduced modulo plain_modulus.
BfvMultiplyUnreduced(a, b) ==
    [value |-> a.value * b.value,
     size |-> a.size + b.size - 1,
     noise_budget |-> Max(0, Min(a.noise_budget, b.noise_budget) - MultiplyNoise(a, b))]

\* evaluator.multiply(a, b, destination)
BfvMultiply(a, b) ==
    [value |-> (a.value * b.value) % PlainModulus,
     size |-> a.size + b.size - 1,
     noise_budget |-> Max(0, Min(a.noise_budget, b.noise_budget) - MultiplyNoise(a, b))]

\* evaluator.relinearize_inplace(c, relin_keys)
BfvRelinearize(c) == [c EXCEPT !.size = 2]

\* decryptor.decrypt(c, plain): the plaintexts it can give.  With no noise
\* budget left the result need not be the encrypted value.
BfvDecrypt(c) ==
    IF c.noise_budget > 0 THEN {c.value} ELSE {c.value, (c.value + 1) % PlainModulus}

\* What a cell prints about a ciphertext.
NotPrinted == [text |-> <<>>, size |-> 0, noise_budget |-> 0]

Pipelines == {"naive", "relin"}

Printable == {"x_sq_plus_one", "x_plus_one_sq", "encrypted_result"}

\* print(size, noise budget, '0x' + decrypted_result.to_string())
PrintDecryption(pipeline, name, c) ==
    \E decrypted_result \in BfvDecrypt(c) :
        printed' = [printed EXCEPT ![pipeline][name] =
                        [text |-> ToHex(decrypted_result),
                         size |-> c.size,
                         noise_budget |-> c.noise_budget]]

InitBfv ==
    /\ x_plain \in { ToHex(v) : v \in 0..MaxX }
    /\ cell = 1
    /\ bfvct = [r \in BfvRegs |-> BfvEmpty]
    /\ printed = [p \in Pipelines |-> [n \in Printable |-> NotPrinted]]
    /\ EvalIdle
    /\ CtxIdle
    /\ BatchIdle
    /\ NoiseIdle
    /\ CkksIdle
    /\ BitIdle
    /\ SqmIdle
    /\ CmpIdle

\* encryptor.encrypt(x_plain, x_encrypted)
CellEncrypt ==
    /\ cell = 1
    /\ cell' = 2
    /\ bfvct' = [bfvct EXCEPT !["x_encrypted"] = BfvEncrypt(FromHex(x_plain))]
    /\ UNCHANGED <<x_plain, printed>>
    /\ UNCHANGED notBfv

\* square(x_encrypted, x_sq_plus_one); add_plain_inplace(x_sq_plus_one, plain_one);
\* print and decrypt
CellSqPlusOne ==
    /\ cell = 2
    /\ cell' = 3
    /\ LET r == BfvAddPlain(BfvSquare(bfvct["x_encrypted"]), FromHex(<<1>>))
       IN  /\ bfvct' = [bfvct EXCEPT !["x_sq_plus_one"] = r]
           /\ PrintDecryption("naive", "x_sq_plus_one", r)
    /\ UNCHANGED x_plain
    /\ UNCHANGED notBfv

\* add_plain(x_encrypted, plain_one, x_plus_one_sq); square_inplace(x_plus_one_sq);
\* print and decrypt
CellPlusOneSq ==
    /\ cell = 3
    /\ cell' = 4
    /\ LET r == BfvSquare(BfvAddPlain(bfvct["x_encrypted"], FromHex(<<1>>)))
       IN  /\ bfvct' = [bfvct EXCEPT !["x_plus_one_sq"] = r]
           /\ PrintDecryption("naive", "x_plus_one_sq", r)
    /\ UNCHANGED x_plain
    /\ UNCHANGED notBfv

\* multiply_plain_inplace(x_sq_plus_one, plain_four);
\* multiply(x_sq_plus_one, x_plus_one_sq, encrypted_result); print and decrypt
CellResult ==
    /\ cell = 4
    /\ cell' = 5
    /\ LET f == BfvMultiplyPlain(bfvct["x_sq_plus_one"], FromHex(<<4>>))
           r == BfvMultiply(f, bfvct["x_plus_one_sq"])
       IN  /\ bfvct' = [bfvct EXCEPT !["x_sq_plus_one"] = f, !["encrypted_result"] = r]
           /\ PrintDecryption("naive", "encrypted_result", r)
    /\ UNCHANGED x_plain
    /\ UNCHANGED notBfv

\* square(x_encrypted, x_squared); relinearize_inplace(x_squared, relin_keys);
\* add_plain(x_squared, plain_one, x_sq_plus_one); print and decrypt
CellRelinSqPlusOne ==
    /\ cell = 5
    /\ cell' = 6
    /\ LET s == BfvRelinearize(BfvSquare(bfvct["x_encrypted"]))
           r == BfvAddPlain(s, FromHex(<<1>>))
       IN  /\ bfvct' = [bfvct EXCEPT !["x_squared"] = s, !["x_sq_plus_one"] = r]
           /\ PrintDecryption("relin", "x_sq_plus_one", r)
    /\ UNCHANGED x_plain
    /\ UNCHANGED notBfv

\* add_plain(x_encrypted, plain_one, x_plus_one); square(x_plus_one, x_plus_one_sq);
\* relinearize_inplace(x_plus_one_sq, relin_keys); print and decrypt
CellRelinPlusOneSq ==
    /\ cell = 6
    /\ cell' = 7
    /\ LET a == BfvAddPlain(bfvct["x_encrypted"], FromHex(<<1>>))
           r == BfvRelinearize(BfvSquare(a))
       IN  /\ bfvct' = [bfvct EXCEPT !["x_plus_one"] = a, !["x_plus_one_sq"] = r]
           /\ PrintDecryption("relin", "x_plus_one_sq", r)
    /\ UNCHANGED x_plain
    /\ UNCHANGED notBfv

\* multiply_plain_inplace(x_sq_plus_one, plain_four);
\* multiply(x_sq_plus_one, x_plus_one_sq, encrypted_result);
\* relinearize_inplace(encrypted_result, relin_keys); print
CellRelinResult ==
    /\ cell = 7
    /\ cell' = 8
    /\ LET f == BfvMultiplyPlain(bfvct["x_sq_plus_one"], FromHex(<<4>>))
           r == BfvRelinearize(BfvMultiply(f, bfvct["x_plus_one_sq"]))
       IN  bfvct' = [bfvct EXCEPT !["x_sq_plus_one"] = f, !["encrypted_result"] = r]
    /\ UNCHANGED <<x_plain, printed>>
    /\ UNCHANGED notBfv

\* decryptor.decrypt(encrypted_result, decrypted_result); print
CellRelinDecrypt ==
    /\ cell = 8
    /\ cell' = 9
    /\ PrintDecryption("relin", "encrypted_result", bfvct["encrypted_result"])
    /\ UNCHANGED <<x_plain, bfvct>>
    /\ UNCHANGED notBfv

NextBfv ==
    \/ CellEncrypt
    \/ CellSqPlusOne
    \/ CellPlusOneSq
    \/ CellResult
    \/ CellRelinSqPlusOne
    \/ CellRelinPlusOneSq
    \/ CellRelinResult
    \/ CellRelinDecrypt

SpecBfv == InitBfv /\ [][NextBfv]_vars

\* The same arithmetic on plaintexts.
PlainArithmetic(name, v) ==
    CASE name = "x_sq_plus_one" -> v * v + 1
      [] name = "x_plus_one_sq" -> (v + 1) * (v + 1)
      [] name = "encrypted_result" -> 4 * (v * v + 1) * (v + 1) * (v + 1)

\* The hexadecimal text of 37, 49 and 84.
ExpectedForSix(name) ==
    CASE name = "x_sq_plus_one" -> <<2, 5>>
      [] name = "x_plus_one_sq" -> <<3, 1>>
      [] name = "encrypted_result" -> <<5, 4>>

HasPrinted(p, n) == cell > 1 /\ printed[p][n] # NotPrinted

\* C17: with plain_modulus 1024, every decryption printed while the noise
\* budget is above zero is the same arithmetic on x modulo 1024: for x = 6
\* it is 0x25 = 37, 0x31 = 49 and 0x54 = 84 = 7252 mod 1024; and the cells
\* that relinearize after every multiplication print the same decryptions
\* as the cells that never relinearize.
C17_DecryptionIsPlainArithmetic ==
    cell > 1 =>
        \A n \in Printable :
            /\ \A p \in Pipelines :
                  (HasPrinted(p, n) /\ printed[p][n].noise_budget > 0) =>
                      /\ printed[p][n].text =
                            ToHex(PlainArithmetic(n, FromHex(x_plain)) % PlainModulus)
                      /\ x_plain = <<6>> => printed[p][n].text = ExpectedForSix(n)
            /\ (HasPrinted("naive", n) /\ HasPrinted("relin", n)
                  /\ printed["naive"][n].noise_budget > 0
                  /\ printed["relin"][n].noise_budget > 0) =>
                      printed["naive"][n].text = printed["relin"][n].text

\* Both pipelines have run for x = 6: 0x54 from a ciphertext of size 5 with
\* 4 bits of budget and from a relinearized one of size 2 with 10 bits.
C17_Witness ==
    /\ cell = 9
    /\ x_plain = <<6>>
    /\ printed["naive"]["encrypted_result"] = [text |-> <<5, 4>>, size |-> 5, noise_budget |-> 4]
    /\ printed["relin"]["encrypted_result"] = [text |-> <<5, 4>>, size |-> 2, noise_budget |-> 10]
    /\ printed["naive"]["x_sq_plus_one"] = [text |-> <<2, 5>>, size |-> 3, noise_budget |-> 33]
    /\ printed["relin"]["x_plus_one_sq"] = [text |-> <<3, 1>>, size |-> 2, noise_budget |-> 33]

(***************************************************************************)
(* The noise budget cells of the levels notebook (part_000): coeff_modulus *)
(* of 50, 30, 30, 50, 50 bits, a plain_modulus of 20 bits.  A ciphertext  *)
(* is its size, the chain_index of its level and its noise budget in       *)
(* bits.  The budgets and what an operation takes are the printed ones.    *)
(***************************************************************************)

\* Noise budget of a fresh encryption brought to chain_index 0, 1, 2, 3:
\* 22, 52, 82 and 132 bits.
LevelNoiseBudget == <<22, 52, 82, 132>>

FirstLevel == Len(LevelNoiseBudget) - 1

FreshBudgetAt(level) == LevelNoiseBudget[level + 1]

\* What a squaring with relinearization takes: 132 to 100, 100 to 67 and
\* 67 to 34 bits.
SquareNoiseBits == {32, 33}

NoCiphertext == [size |-> 0, level |-> 0, noise_budget |-> 0]

\* A modulus switch that leaves the budget as it is.
KeptNoiseBudget(budget, level) == budget

\* The budget after a switch to the level: 132 bits become 82 at
\* chain_index 2, 67 bits stay 67.
SwitchedNoiseBudget(budget, level) == Min(budget, FreshBudgetAt(level))

InitNoise ==
    /\ encrypted = NoCiphertext
    /\ EvalIdle
    /\ CtxIdle
    /\ BatchIdle
    /\ BfvIdle
    /\ CkksIdle
    /\ BitIdle
    /\ SqmIdle
    /\ CmpIdle

\* encryptor.encrypt(plain, encrypted)
NoiseEncrypt ==
    /\ encrypted' = [size |-> 2, level |-> FirstLevel,
                     noise_budget |-> FreshBudgetAt(FirstLevel)]
    /\ UNCHANGED notNoise

\* evaluator.add_plain_inplace(encrypted, plain)
NoiseAddPlain ==
    /\ encrypted.size >= 2
    /\ encrypted' = encrypted
    /\ UNCHANGED notNoise

\* evaluator.square_inplace(encrypted)
NoiseSquare ==
    /\ encrypted.size >= 2
    /\ 2 * encrypted.size - 1 <= MaxSize
    /\ \E bits \in SquareNoiseBits :
          encrypted' = [encrypted EXCEPT
                           !.size = 2 * encrypted.size - 1,
                           !.noise_budget = Max(0, encrypted.noise_budget - bits)]
    /\ UNCHANGED notNoise

\* evaluator.multiply_inplace(encrypted, encrypted)
NoiseMultiply ==
    /\ encrypted.size >= 2
    /\ 2 * encrypted.size - 1 <= MaxSize
    /\ \E bits \in SquareNoiseBits :
          encrypted' = [encrypted EXCEPT
                           !.size = encrypted.size + encrypted.size - 1,
                           !.noise_budget = Max(0, encrypted.noise_budget - bits)]
    /\ UNCHANGED notNoise

\* evaluator.relinearize_inplace(encrypted, relin_keys)
NoiseRelinearize ==
    /\ encrypted.size > 2
    /\ encrypted' = [encrypted EXCEPT !.size = 2]
    /\ UNCHANGED notNoise

\* evaluator.mod_switch_to_next_inplace(encrypted)
NoiseModSwitchToNext ==
    /\ encrypted.size >= 2
    /\ encrypted.level > 0
    /\ encrypted' = [encrypted EXCEPT
                        !.level = encrypted.level - 1,
                        !.noise_budget =
                            SwitchedNoiseBudget(encrypted.noise_budget, encrypted.level - 1)]
    /\ UNCHANGED notNoise

NextNoise ==
    \/ NoiseEncrypt
    \/ NoiseAddPlain
    \/ NoiseSquare
    \/ NoiseMultiply
    \/ NoiseRelinearize
    \/ NoiseModSwitchToNext

SpecNoise == InitNoise /\ [][NextNoise]_vars

\* C18: the noise budget of the ciphertext is a non-negative integer, no
\* evaluator operation on the ciphertext (add_plain, square, multiply,
\* relinearize, mod_switch_to_next) increases it, and it is never above the
\* budget of a fresh encryption brought to the ciphertext's level.
C18_NoiseBudgetNeverIncreases ==
    [][/\ encrypted'.noise_budget \in Nat
       /\ encrypted'.size >= 2 =>
             encrypted'.noise_budget <= FreshBudgetAt(encrypted'.level)
       /\ (NoiseAddPlain \/ NoiseSquare \/ NoiseMultiply \/ NoiseRelinearize
             \/ NoiseModSwitchToNext) =>
             encrypted'.noise_budget <= encrypted.noise_budget]_vars

\* After two squarings with relinearization and a modulus switch the
\* ciphertext has 67 bits at chain_index 2, where a fresh one has 82; or it
\* was switched down with more than the level's budget and lost bits.
C18_Witness ==
    /\ encrypted.size = 2
    /\ encrypted.level = 2
    /\ encrypted.noise_budget = 67

(***************************************************************************)
(* The CKKS basics cells (part_001): PI*x^3 + 0.4*x + 1 on encrypted       *)
(* points of [0, 1].  An encoded vector is, per slot, the integer nearest  *)
(* to value * scale; a rescale divides it by the dropped prime, which is   *)
(* as large as the scale.  The notebook has scale 2^40 and 4096 points;    *)
(* the model has a smaller scale and fewer points.                         *)
(***************************************************************************)

\* log2 of the scale of the encoder.
CkksScaleBits == 10

\* The input points are 0, 1/XDen, ..., 1.
XDen == 4

\* Slots of a vector.
SlotCount == 2

RECURSIVE Pow2(_)
Pow2(n) == IF n = 0 THEN 1 ELSE 2 * Pow2(n - 1)

Abs(n) == IF n < 0 THEN -n ELSE n

\* The integer nearest to n / d, for n >= 0.
RoundDiv(n, d) == (2 * n + d) \div (2 * d)

\* The numbers of the cells, to three decimals.
Pi == [num |-> 3142, den |-> 1000]
CodedCoeff1 == [num |-> 300, den |-> 1000]
TextCoeff1 == [num |-> 400, den |-> 1000]
One == [num |-> 1000, den |-> 1000]

\* chain_index of the first data level of CoeffModulus.Create(N, [60, 40, 40, 60]).
CkksFirstLevel == CkksPrimes - 2

\* encoder.encode(value, scale, plain): every slot holds the value.
CkksEncodeNumber(v) ==
    [slots |-> [i \in 1..SlotCount |-> RoundDiv(v.num * Pow2(CkksScaleBits), v.den)],
     scale_bits |-> CkksScaleBits,
     level |-> CkksFirstLevel]

\* encoder.encode(input, scale, x_plain)
CkksEncodeVector(points) ==
    [slots |-> [i \in 1..SlotCount |-> RoundDiv(points[i] * Pow2(CkksScaleBits), XDen)],
     scale_bits |-> CkksScaleBits,
     level |-> CkksFirstLevel]

\* evaluator.multiply, multiply_plain and square: slot by slot, the scales
\* multiply.
CkksMultiply(a, b) ==
    [slots |-> [i \in 1..SlotCount |-> a.slots[i] * b.slots[i]],
     scale_bits |-> a.scale_bits + b.scale_bits,
     level |-> a.level]

\* evaluator.rescale_to_next_inplace(c)
CkksRescale(c) ==
    [slots |-> [i \in 1..SlotCount |-> RoundDiv(c.slots[i], Pow2(CkksScaleBits))],
     scale_bits |-> c.scale_bits - CkksScaleBits,
     level |-> c.level - 1]

\* evaluator.mod_switch_to_inplace(c, parms_id)
CkksModSwitchTo(c, level) == [c EXCEPT !.level = level]

\* An addition that drops its second operand.
CkksAddFirst(a, b) == a

\* evaluator.add and add_plain
CkksAdd(a, b) ==
    [slots |-> [i \in 1..SlotCount |-> a.slots[i] + b.slots[i]],
     scale_bits |-> a.scale_bits,
     level |-> a.level]

CkksCompatible(a, b) == a.level = b.level /\ a.scale_bits = b.scale_bits

CkksNames == {"x1_encrypted", "x3_encrypted", "x1_encrypted_coeff3", "encrypted_result"}

CkksEmpty == [slots |-> <<>>, scale_bits |-> 0, level |-> 0]

InitCkks ==
    /\ input \in [1..SlotCount -> 0..XDen]
    /\ ckks_cell = 1
    /\ plain_coeff = [n \in {"plain_coeff3", "plain_coeff1", "plain_coeff0"} |-> CkksEmpty]
    /\ ckks = [n \in CkksNames |-> CkksEmpty]
    /\ plain_result = CkksEmpty
    /\ EvalIdle
    /\ CtxIdle
    /\ BatchIdle
    /\ BfvIdle
    /\ NoiseIdle
    /\ BitIdle
    /\ SqmIdle
    /\ CmpIdle

\* encoder.encode(3.14159265, scale, plain_coeff3);
\* encoder.encode(0.3, scale, plain_coeff1); encoder.encode(1.0, scale, plain_coeff0)
CellEncodeCoefficients ==
    /\ ckks_cell = 1
    /\ ckks_cell' = 2
    /\ plain_coeff' = [plain_coeff EXCEPT
                          !["plain_coeff3"] = CkksEncodeNumber(Pi),
                          !["plain_coeff1"] = CkksEncodeNumber(CodedCoeff1),
                          !["plain_coeff0"] = CkksEncodeNumber(One)]
    /\ UNCHANGED <<input, ckks, plain_result>>
    /\ UNCHANGED notCkks

\* encode and encrypt x; square, relinearize and rescale x^2; multiply_plain
\* and rescale PI*x; multiply, relinearize and rescale (PI*x)*x^2
CellCubicTerm ==
    /\ ckks_cell = 2
    /\ ckks_cell' = 3
    /\ LET x1 == CkksEncodeVector(input)
           x2 == CkksRescale(CkksMultiply(x1, x1))
           x1c3 == CkksRescale(CkksMultiply(x1, plain_coeff["plain_coeff3"]))
           x3 == CkksRescale(CkksMultiply(x2, x1c3))
       IN  ckks' = [ckks EXCEPT !["x1_encrypted"] = x1,
                                !["x1_encrypted_coeff3"] = x1c3,
                                !["x3_encrypted"] = x3]
    /\ UNCHANGED <<input, plain_coeff, plain_result>>
    /\ UNCHANGED notCkks

\* multiply_plain_inplace(x1_encrypted, plain_coeff1);
\* rescale_to_next_inplace(x1_encrypted)
CellLinearTerm ==
    /\ ckks_cell = 3
    /\ ckks_cell' = 4
    /\ ckks' = [ckks EXCEPT !["x1_encrypted"] =
                   CkksRescale(CkksMultiply(ckks["x1_encrypted"], plain_coeff["plain_coeff1"]))]
    /\ UNCHANGED <<input, plain_coeff, plain_result>>
    /\ UNCHANGED notCkks

\* x3_encrypted.scale = pow(2.0, 40); x1_encrypted.scale = pow(2.0, 40);
\* mod_switch_to_inplace(x1_encrypted, last_parms_id);
\* mod_switch_to_inplace(plain_coeff0, last_parms_id)
CellNormalize ==
    /\ ckks_cell = 4
    /\ ckks_cell' = 5
    /\ LET last_level == ckks["x3_encrypted"].level
       IN  /\ ckks' = [ckks EXCEPT
                          !["x3_encrypted"].scale_bits = CkksScaleBits,
                          !["x1_encrypted"] =
                              [CkksModSwitchTo(@, last_level) EXCEPT !.scale_bits = CkksScaleBits]]
           /\ plain_coeff' = [plain_coeff EXCEPT
                                 !["plain_coeff0"] = CkksModSwitchTo(@, last_level)]
    /\ UNCHANGED <<input, plain_result>>
    /\ UNCHANGED notCkks

\* add(x3_encrypted, x1_encrypted, encrypted_result);
\* add_plain_inplace(encrypted_result, plain_coeff0)
CellAddTerms ==
    /\ ckks_cell = 5
    /\ CkksCompatible(ckks["x3_encrypted"], ckks["x1_encrypted"])
    /\ CkksCompatible(ckks["x3_encrypted"], plain_coeff["plain_coeff0"])
    /\ ckks_cell' = 6
    /\ ckks' = [ckks EXCEPT !["encrypted_result"] =
                   CkksAdd(CkksAdd(ckks["x3_encrypted"], ckks["x1_encrypted"]),
                           plain_coeff["plain_coeff0"])]
    /\ UNCHANGED <<input, plain_coeff, plain_result>>
    /\ UNCHANGED notCkks

\* decryptor.decrypt(encrypted_result, plain_result);
\* result = encoder.decode_double(plain_result)
CellDecode ==
    /\ ckks_cell = 6
    /\ ckks_cell' = 7
    /\ plain_result' = ckks["encrypted_result"]
    /\ UNCHANGED <<input, plain_coeff, ckks>>
    /\ UNCHANGED notCkks

NextCkks ==
    \/ CellEncodeCoefficients
    \/ CellCubicTerm
    \/ CellLinearTerm
    \/ CellNormalize
    \/ CellAddTerms
    \/ CellDecode

SpecCkks == InitCkks /\ [][NextCkks]_vars

\* true_result = (PI*input**2 + coeff1)*input + 1 at the point k / XDen, as a
\* fraction.
TrueResult(k, coeff1) ==
    [num |-> Pi.num * k * k * k + coeff1.num * k * XDen * XDen + One.num * XDen * XDen * XDen,
     den |-> Pi.den * XDen * XDen * XDen]

\* The decoded slot m / 2^bits is within a hundredth of the fraction.
Approximates(m, bits, ref) ==
    Abs(m * ref.den - ref.num * Pow2(bits)) <= (Pow2(bits) * ref.den) \div 100

Decoded == ckks_cell = 7

\* The original statement: the cells multiply by 0.4 in the linear term and
\* the decoded result is the printed reference PI*x^3 + 0.4*x + 1 up to the
\* approximation error.
C19_EvaluatesPrintedPolynomial ==
    Decoded =>
        /\ plain_coeff["plain_coeff1"].slots = CkksEncodeNumber(TextCoeff1).slots
        /\ \A i \in 1..SlotCount :
              Approximates(plain_result.slots[i], plain_result.scale_bits, TrueResult(input[i], TextCoeff1))

\* C19: the cells encode PI for the cubic term and 1 for the constant term,
\* but 0.3 for the linear term: the decoded result is PI*x^3 + 0.3*x + 1 up
\* to the approximation error, and it is off the printed reference
\* PI*x^3 + 0.4*x + 1 in every slot whose point is 1/4 or more.
C19_EvaluatesCodedPolynomial ==
    Decoded =>
        /\ plain_coeff["plain_coeff3"].slots = CkksEncodeNumber(Pi).slots
        /\ plain_coeff["plain_coeff1"].slots = CkksEncodeNumber(CodedCoeff1).slots
        /\ \A i \in 1..SlotCount :
              /\ Approximates(plain_result.slots[i], plain_result.scale_bits,
                              TrueResult(input[i], CodedCoeff1))
              /\ 4 * input[i] >= XDen =>
                    ~Approximates(plain_result.slots[i], plain_result.scale_bits,
                                  TrueResult(input[i], TextCoeff1))

\* The result was decoded for the points 1/XDen and 1; it is off the
\* reference in both.
C19_Witness ==
    /\ Decoded
    /\ input = <<1, XDen>>
    /\ \A i \in 1..SlotCount :
          ~Approximates(plain_result.slots[i], plain_result.scale_bits, TrueResult(input[i], TextCoeff1))

(***************************************************************************)
(* bit_size_test.ipynb: CKKS with coeff_modulus [bit_size, 60], so that    *)
(* the data level has bit_size bits; x is encoded at the scale, encrypted, *)
(* decrypted and decoded.  The notebook has bit_size 50, scale 2^46 and    *)
(* x = 3; the model has the same shape at smaller sizes (x = 3 at scale    *)
(* 2^6 and bit_size 10 is 9.58 bits against 10, as 49.58 against 50).      *)
(***************************************************************************)

\* bit_size: total_coeff_modulus_bit_count of the level of the plaintext.
BitSizes == {8, 9, 10}

\* log2(scale)
ScaleBitsTried == {4, 6}

\* x
ValuesTried == {-5, -3, -1, 1, 3, 5}

\* What encryption and decryption add to a coefficient.
NoiseTried == {-1, 0, 1}

\* The bits the check adds to log2(abs(x*scale)).
GuardBits == 2

\* A check against the whole modulus, with no guard bits.
OverflowsModulus(value, p) ==
    Abs(value) * Pow2(p.scale_bits) >= Pow2(p.bit_size)

\* coeff_bit_count >= total_coeff_modulus_bit_count, where
\* coeff_bit_count = log2(abs(x*scale)) + 2
Overflows(value, p) ==
    Abs(value) * Pow2(p.scale_bits) >= Pow2(p.bit_size - GuardBits)

\* No plaintext or ciphertext yet.
BitNone == [coeff |-> 0, scale_bits |-> 0, set |-> FALSE]

\* The plaintext of x at the scale.
BitEncoded(value, p) == [coeff |-> value * Pow2(p.scale_bits), scale_bits |-> p.scale_bits, set |-> TRUE]

InitBit ==
    /\ bit_parms \in [bit_size : BitSizes, scale_bits : ScaleBitsTried]
    /\ bit_x \in ValuesTried
    /\ bit_plain = BitNone
    /\ x_enc = BitNone
    /\ after_enc = BitNone
    /\ bit_raised = "ok"
    /\ EvalIdle
    /\ CtxIdle
    /\ BatchIdle
    /\ BfvIdle
    /\ NoiseIdle
    /\ CkksIdle
    /\ SqmIdle
    /\ CmpIdle

\* encoder.encode(x, scale, x_plain): the encoder makes the overflow check
\* itself and gives no plaintext when it fails.
BitEncode ==
    /\ ~bit_plain.set
    /\ bit_raised = "ok"
    /\ IF Overflows(bit_x, bit_parms)
       THEN /\ bit_raised' = "error"
            /\ bit_plain' = bit_plain
       ELSE /\ bit_raised' = "ok"
            /\ bit_plain' = BitEncoded(bit_x, bit_parms)
    /\ UNCHANGED <<bit_parms, bit_x, x_enc, after_enc>>
    /\ UNCHANGED notBit

\* encryptor.encrypt(x_plain, x_enc)
BitEncrypt ==
    /\ bit_plain.set
    /\ ~x_enc.set
    /\ \E e \in NoiseTried : x_enc' = [bit_plain EXCEPT !.coeff = @ + e]
    /\ UNCHANGED <<bit_parms, bit_x, bit_plain, after_enc, bit_raised>>
    /\ UNCHANGED notBit

\* decryptor.decrypt(x_enc, result); after_enc = encoder.decode_double(result)[0]
BitDecryptDecode ==
    /\ x_enc.set
    /\ ~after_enc.set
    /\ after_enc' = x_enc
    /\ UNCHANGED <<bit_parms, bit_x, bit_plain, x_enc, bit_raised>>
    /\ UNCHANGED notBit

NextBit ==
    \/ BitEncode
    \/ BitEncrypt
    \/ BitDecryptDecode

SpecBit == InitBit /\ [][NextBit]_vars

\* error = abs(x - after_enc) is at most what encryption added, one unit of
\* 1/scale.
WithinApproximation(value, decoded) ==
    Abs(decoded.coeff - value * Pow2(decoded.scale_bits)) <= 1

C21_ModSwitchKeepsScaleAndSize ==
    [][(last' = "ok" /\ parms.scheme = "CKKS") =>
          \A a \in Regs :
             /\ ModSwitchToNext(a) =>
                   /\ Level(ct'[a]) = Level(ct[a]) - 1
                   /\ ct'[a].scale = ct[a].scale
                   /\ ct'[a].size = ct[a].size
             /\ \A target \in ChainParmsIds :
                   ModSwitchTo(a, target) =>
                      /\ ct'[a].parms_id = target
                      /\ ct'[a].scale = ct[a].scale
                      /\ ct'[a].size = ct[a].size
             /\ RescaleToNext(a) =>
                   /\ Level(ct'[a]) = Level(ct[a]) - 1
                   /\ ct'[a].scale # ct[a].scale
                   /\ ct'[a].size = ct[a].size]_vars

\* A CKKS product of size 3 that was switched two levels down and still has
\* the scale S^2 of the multiplication, next to one that was rescaled.
C21_Witness ==
    /\ ContextCreated
    /\ parms.scheme = "CKKS"
    /\ \E r \in Regs :
          /\ ct[r].size = 3
          /\ ct[r].drops = 2
          /\ ct[r].scale = [exp |-> 2 * ScaleExp, den |-> 1]
          /\ \E q \in Regs \ {r} :
                /\ IsCt(ct[q])
                /\ ct[q].scale.den > 1

----------------------------------------------------------------------------
(***************************************************************************)
(* The helper functions of comparison.ipynb: CKKS with a coeff_modulus of  *)
(* 60, 35 x 6 and 60 bits and scale 2^35.  A ciphertext is its level (the  *)
(* chain index), its size, its scale field and its message: the terms      *)
(* value * scale that its polynomials hold.  Decoding divides the message  *)
(* by the scale field.  A scale is 2^bits over the primes it was divided   *)
(* by, counted per level that was left.                                    *)
(***************************************************************************)

\* mod_pow: the bit size of the data primes and of the scale.
ModPow == 35

\* chain_index of the first data level: six data primes below the key level.
FirstDataLevel == 6

\* The largest exponent passed to square_and_multiply.
MaxExp == 7

\* The values encrypted.
Values == {-2, 3}

NoPrimes == [l \in 1..FirstDataLevel |-> 0]

\* pow(2.0, bits)
PowerOfTwo(bits) == [bits |-> bits, den |-> NoPrimes]

ScaleProduct(s, t) ==
    [bits |-> s.bits + t.bits,
     den |-> [l \in 1..FirstDataLevel |-> s.den[l] + t.den[l]]]

\* s divided by the prime that is dropped on leaving level l.
ScaleOverPrime(s, l) == [s EXCEPT !.den[l] = @ + 1]

Term(v, s) == [value |-> v, scale |-> s]

\* seal.Ciphertext() and seal.Plaintext()
NoCt == [level |-> 0, size |-> 0, scale |-> PowerOfTwo(0), message |-> <<>>]

\* encoder.encode(v, scale, plain): the plaintext is at the first data level.
Encode(v, bits) ==
    [level |-> FirstDataLevel,
     size |-> 1,
     scale |-> PowerOfTwo(bits),
     message |-> <<Term(v, PowerOfTwo(bits))>>]

\* encryptor.encrypt(plain, c)
Encrypted(plain) == [plain EXCEPT !.size = 2]

\* Every term of m times every term of n.
MessageProduct(m, n) ==
    [k \in 1..(Len(m) * Len(n)) |->
        LET i == ((k - 1) \div Len(n)) + 1
            j == ((k - 1) % Len(n)) + 1
        IN  Term(m[i].value * n[j].value, ScaleProduct(m[i].scale, n[j].scale))]

\* evaluator.multiply(a, b, d); with b = a it is evaluator.square.
Multiplied(a, b) ==
    [level |-> a.level,
     size |-> a.size + b.size - 1,
     scale |-> ScaleProduct(a.scale, b.scale),
     message |-> MessageProduct(a.message, b.message)]

\* Mutation: the plaintext is left out of the product.
FirstOperand(a, plain) == a

\* evaluator.multiply_plain(a, plain, d)
MultipliedPlain(a, plain) == [Multiplied(a, plain) EXCEPT !.size = a.size]

\* evaluator.relinearize_inplace(c, relin_keys)
Relinearized(c) == [c EXCEPT !.size = 2]

\* Mutation: the rescaling divides by the prime and stays at its level.
RescaledInPlace(c) ==
    [c EXCEPT !.scale = ScaleOverPrime(@, c.level)]

\* evaluator.rescale_to_next_inplace(c): the polynomials and the scale field
\* are divided by the prime of the level that is left.
Rescaled(c) ==
    [level |-> c.level - 1,
     size |-> c.size,
     scale |-> ScaleOverPrime(c.scale, c.level),
     message |-> [i \in DOMAIN c.message |->
                     Term(c.message[i].value,
                          ScaleOverPrime(c.message[i].scale, c.level))]]

\* Mutation: the switch leaves the ciphertext where it is.
NotSwitched(c) == c

\* evaluator.mod_switch_to_next_inplace(c)
Switched(c) == [c EXCEPT !.level = @ - 1]

\* evaluator.mod_switch_to_inplace(c, parms_id) to a level at or below c's.
SwitchedTo(c, level) == [c EXCEPT !.level = level]

\* A ciphertext or plaintext object together with the exception of the call
\* that worked on it ("" when it returned).
Outcome(c, error) == [ct |-> c, raised |-> error]

\* Mutation: the level above the last one has no next level either.
TerminalFromOne(c) == c.level <= 1

\* The last level of the chain: nothing to rescale or switch to.
Terminal(c) == c.level = 0

\* relinearize_and_rescale_inplace(cipher, evaluator, relin_keys)
RelinearizeAndRescale(c) ==
    IF c.size # 3 THEN Outcome(c, "RelinearizationError")
    ELSE IF Terminal(c) THEN Outcome(Relinearized(c), "ChainExhausted")
    ELSE Outcome(Rescaled(Relinearized(c)), "")

\* cipher and res after one pass of the loop, and the exception it raised.
Frame(c, r, error) == [cipher |-> c, res |-> r, raised |-> error]

\* char == '1': multiply_inplace(res, cipher), relinearize and rescale res,
\* square_inplace(cipher), relinearize and rescale cipher.
DigitOne(c, r) ==
    IF r.size = 0 THEN Frame(c, r, "ValueError")
    ELSE IF r.level # c.level THEN Frame(c, r, "LevelMismatch")
    ELSE LET product == RelinearizeAndRescale(Multiplied(r, c))
         IN  IF product.raised # "" THEN Frame(c, product.ct, product.raised)
             ELSE LET square == RelinearizeAndRescale(Multiplied(c, c))
                  IN  Frame(square.ct, product.ct, square.raised)

\* char == '0': square_inplace(cipher), relinearize and rescale cipher,
\* mod_switch_to_next_inplace(res).
DigitZero(c, r) ==
    LET square == RelinearizeAndRescale(Multiplied(c, c))
    IN  IF square.raised # "" THEN Frame(square.ct, r, square.raised)
        ELSE IF r.size = 0 THEN Frame(square.ct, r, "InvalidArgument")
        ELSE IF Terminal(r) THEN Frame(square.ct, r, "ChainExhausted")
        ELSE Frame(square.ct, Switched(r), "")

\* bin(exp)[2:]
RECURSIVE Binary(_)
Binary(n) == IF n < 2 THEN <<n>> ELSE Append(Binary(n \div 2), n % 2)

\* Mutation: the digits are read from the most significant one.
Unreversed(s) == s

\* binary_exp[::-1]
Reverse(s) == [i \in 1..Len(s) |-> s[Len(s) + 1 - i]]

\* Mutation: no exponent is refused.
NeverZero(e) == FALSE

\* if exp==0
IsZero(e) == e = 0

\* The ciphertexts a caller holds: x or the unrelinearized x * x, at any
\* data level.
EntryCiphers ==
    { SwitchedTo(c, level) :
         c \in UNION { { Encrypted(Encode(v, ModPow)),
                         Multiplied(Encrypted(Encode(v, ModPow)),
                                    Encrypted(Encode(v, ModPow))) } : v \in Values },
         level \in 0..FirstDataLevel }

\* The res a caller passes: an encryption of 1 at the level of cipher or one
\* above it, or an empty Ciphertext().
EntryRes(c) ==
    { SwitchedTo(Encrypted(Encode(1, ModPow)), level) :
         level \in {c.level, c.level + 1} \cap (0..FirstDataLevel) }
    \cup {NoCt}

InitSqm ==
    /\ cipher \in EntryCiphers
    /\ res \in EntryRes(cipher)
    /\ exp = 0
    /\ binary_exp = <<>>
    /\ sqm_pc = "call"
    /\ sqm_raised = ""
    /\ entry = <<>>
    /\ EvalIdle
    /\ CtxIdle
    /\ BatchIdle
    /\ BfvIdle
    /\ NoiseIdle
    /\ CkksIdle
    /\ BitIdle
    /\ CmpIdle

\* square_and_multiply(cipher, e, evaluator, relin_keys, scale, encoder, res)
\* up to its loop.
SquareAndMultiply(e) ==
    /\ sqm_pc = "call"
    /\ exp' = e
    /\ entry' = [cipher |-> cipher, res |-> res]
    /\ IF IsZero(e)
       THEN /\ sqm_raised' = "ValueError"
            /\ sqm_pc' = "raised"
            /\ UNCHANGED binary_exp
       ELSE /\ binary_exp' = Reverse(Binary(e))
            /\ sqm_pc' = "loop"
            /\ UNCHANGED sqm_raised
    /\ UNCHANGED <<cipher, res>>
    /\ UNCHANGED notSqm

\* One pass of "for char in binary_exp[::-1]"; the function returns after
\* the last one.
LoopPass(frame) ==
    /\ cipher' = frame.cipher
    /\ res' = frame.res
    /\ sqm_raised' = frame.raised
    /\ IF frame.raised # ""
       THEN /\ sqm_pc' = "raised"
            /\ UNCHANGED binary_exp
       ELSE /\ binary_exp' = Tail(binary_exp)
            /\ sqm_pc' = IF Len(binary_exp) = 1 THEN "returned" ELSE "loop"
    /\ UNCHANGED <<exp, entry>>
    /\ UNCHANGED notSqm

LoopDigitOne ==
    /\ sqm_pc = "loop"
    /\ Head(binary_exp) = 1
    /\ LoopPass(DigitOne(cipher, res))

LoopDigitZero ==
    /\ sqm_pc = "loop"
    /\ Head(binary_exp) = 0
    /\ LoopPass(DigitZero(cipher, res))

NextSqm ==
    \/ \E e \in 0..MaxExp : SquareAndMultiply(e)
    \/ LoopDigitOne
    \/ LoopDigitZero

SpecSqm == InitSqm /\ [][NextSqm]_vars

----------------------------------------------------------------------------
\* Properties of square_and_multiply.

RECURSIVE Pow(_, _)
Pow(b, e) == IF e = 0 THEN 1 ELSE b * Pow(b, e - 1)

\* ceil(log2(n)) for n >= 1
CeilLog2(n) == CHOOSE k \in 0..n : Pow2(k) >= n /\ (k = 0 \/ Pow2(k - 1) < n)

\* c decodes to v: its message is v times its scale field.
Encrypts(c, v) == c.size >= 2 /\ c.message = <<Term(v, c.scale)>>

\* The call has passed its exp == 0 test.
Called == sqm_pc \in {"loop", "returned", "raised"}

\* The value of cipher on entry.
EntryValue == entry.cipher.message[1].value

\* res and cipher entered as size 2 ciphertexts at one level, res
\* encrypting 1.
AlignedEntry ==
    /\ entry.cipher.size = 2
    /\ entry.res.size = 2
    /\ entry.res.level = entry.cipher.level
    /\ Encrypts(entry.res, 1)

\* C22: when square_and_multiply returns for an exp >= 1, after entering
\* with res an encryption of 1 at the level of cipher, res decodes to the
\* entry value of cipher to the power exp, and cipher to that value to the
\* power 2^k, k the number of binary digits of exp.
C22_ResIsValueToTheExp ==
    (sqm_pc = "returned" /\ AlignedEntry) =>
        /\ exp >= 1
        /\ Encrypts(res, Pow(EntryValue, exp))
        /\ Encrypts(cipher, Pow(EntryValue, Pow2(Len(Binary(exp)))))

\* 3^6 computed from the digits 0, 1, 1.
C22_Witness ==
    /\ sqm_pc = "returned"
    /\ AlignedEntry
    /\ exp = 6
    /\ EntryValue = 3
    /\ Encrypts(res, 729)
    /\ Encrypts(cipher, 6561)

C24_PassesStartAligned ==
    (Called /\ AlignedEntry) =>
        /\ sqm_pc = "loop" =>
              /\ res.level = cipher.level
              /\ res.size = 2
              /\ cipher.size = 2
        /\ sqm_raised # "LevelMismatch"

\* exp = 5 before its last pass: a '1' pass and a '0' pass have run.
C24_Witness ==
    /\ sqm_pc = "loop"
    /\ AlignedEntry
    /\ exp = 5
    /\ Len(binary_exp) = 1
    /\ cipher.level = entry.cipher.level - 2
    /\ res.level = cipher.level

\* C25: a call with exp = 0 raises ValueError before any evaluator
\* operation: the loop is not entered and cipher and res are as on entry.
C25_ZeroExponentRaisesFirst ==
    (Called /\ exp = 0) =>
        /\ sqm_pc = "raised"
        /\ sqm_raised = "ValueError"
        /\ binary_exp = <<>>
        /\ cipher = entry.cipher
        /\ res = entry.res

C25_Witness ==
    /\ sqm_pc = "raised"
    /\ exp = 0
    /\ sqm_raised = "ValueError"
    /\ AlignedEntry
    /\ cipher.level = FirstDataLevel - 1

\* C29: a call with exp >= 1 entered with res and cipher at level index L
\* returns only if exp has at most L binary digits, and raises only if exp
\* has more: then it is ChainExhausted, raised with res and cipher at the
\* last level, after at least one of them was changed in place, and both of
\* them when L >= 1.
C29_CompletesIffDigitsFit ==
    (Called /\ exp >= 1 /\ AlignedEntry) =>
        /\ sqm_pc = "returned" => Len(Binary(exp)) <= entry.cipher.level
        /\ sqm_pc = "raised" =>
              /\ sqm_raised = "ChainExhausted"
              /\ Len(Binary(exp)) > entry.cipher.level
              /\ Terminal(cipher) /\ Terminal(res)
              /\ cipher # entry.cipher \/ res # entry.res
              /\ entry.cipher.level >= 1 =>
                    cipher # entry.cipher /\ res # entry.res

\* exp = 7 entered at level 2: the third pass fails.
C29_Witness ==
    /\ sqm_pc = "raised"
    /\ sqm_raised = "ChainExhausted"
    /\ AlignedEntry
    /\ exp = 7
    /\ entry.cipher.level = 2
    /\ Len(binary_exp) = 1
    /\ res.size = 2

----------------------------------------------------------------------------
(***************************************************************************)
(* bad_copy and divByPo2, called on the ciphertexts x_enc and x_copy in    *)
(* any order.                                                              *)
(***************************************************************************)

\* The largest sum of the powers one ciphertext is divided by.
MaxPower == 2

CmpNames ==
    {"x_enc", "x_copy", "x3_enc", "x5_enc", "x7_enc",
     "x_coeff", "x3_coeff", "x5_coeff", "x7_coeff", "res"}

\* The ciphertexts the helper functions are called on.
CopyArgs == {"x_enc", "x_copy"}

\* Mutation: the unit plaintext is encoded at the level of cipher.
DummyPlainAtLevel(c, bits) == SwitchedTo(Encode(1, bits), c.level)

\* dummy_plain = seal.Plaintext(); encoder.encode(1, scale, dummy_plain)
DummyPlain(c, bits) == Encode(1, bits)

\* bad_copy(cipher, scale, evaluator, encoder): the copy, or the exception of
\* multiply_plain or rescale_to_next_inplace.
BadCopy(c, bits) ==
    LET dummy_plain == DummyPlain(c, bits)
    IN  IF c.level # dummy_plain.level THEN Outcome(NoCt, "LevelMismatch")
        ELSE IF Terminal(c) THEN Outcome(NoCt, "ChainExhausted")
        ELSE Outcome(Rescaled(MultipliedPlain(c, dummy_plain)), "")

\* Mutation: the message is multiplied together with the scale field.
DivByPo2Message(c, power) ==
    [c EXCEPT !.scale.bits = @ + power,
              !.message = [i \in DOMAIN c.message |->
                              Term(c.message[i].value,
                                   [c.message[i].scale EXCEPT !.bits = @ + power])]]

\* divByPo2(cipher, power): cipher.scale = cipher.scale*(2**power)
DivByPo2(c, power) == [c EXCEPT !.scale.bits = @ + power]

\* The powers of two c was divided by so far.
Divided(c) == c.scale.bits % ModPow

InitCopy ==
    /\ store = [n \in CmpNames |-> NoCt]
    /\ cmp_cell = 0
    /\ cmp_call = <<>>
    /\ cmp_raised = ""
    /\ EvalIdle
    /\ CtxIdle
    /\ BatchIdle
    /\ BfvIdle
    /\ NoiseIdle
    /\ CkksIdle
    /\ BitIdle
    /\ SqmIdle

\* The call returns c into the object called name.
CmpReturn(name, c, call) ==
    /\ store' = [store EXCEPT ![name] = c]
    /\ cmp_call' = call
    /\ cmp_raised' = ""
    /\ UNCHANGED cmp_cell
    /\ UNCHANGED notCmp

\* The call raises: no object is assigned.
CmpRaise(error, call) ==
    /\ cmp_call' = call
    /\ cmp_raised' = error
    /\ UNCHANGED <<store, cmp_cell>>
    /\ UNCHANGED notCmp

\* encoder.encode(x, scale, x_plain); encryptor.encrypt(x_plain, x_enc)
EncryptX(v) ==
    /\ v \in Values
    /\ CmpReturn("x_enc", Encrypted(Encode(v, ModPow)),
                 [function |-> "encrypt", cipher |-> "x_enc"])

\* evaluator.square_inplace(x_enc), on a ciphertext of size 2
SquareInplace ==
    /\ store["x_enc"].size = 2
    /\ Divided(store["x_enc"]) = 0
    /\ CmpReturn("x_enc", Multiplied(store["x_enc"], store["x_enc"]),
                 [function |-> "square_inplace", cipher |-> "x_enc"])

\* evaluator.mod_switch_to_next_inplace(name)
ModSwitchToNextInplace(name) ==
    /\ store[name].size >= 2
    /\ LET call == [function |-> "mod_switch_to_next_inplace", cipher |-> name]
       IN  IF Terminal(store[name]) THEN CmpRaise("ChainExhausted", call)
           ELSE CmpReturn(name, Switched(store[name]), call)

\* x_copy = bad_copy(name, scale, evaluator, encoder)
CallBadCopy(name) ==
    /\ store[name].size >= 2
    /\ LET out == BadCopy(store[name], ModPow)
           call == [function |-> "bad_copy", cipher |-> name]
       IN  IF out.raised # "" THEN CmpRaise(out.raised, call)
           ELSE CmpReturn("x_copy", out.ct, call)

\* divByPo2(name, power)
CallDivByPo2(name, power) ==
    /\ store[name].size >= 2
    /\ Divided(store[name]) + power <= MaxPower
    /\ CmpReturn(name, DivByPo2(store[name], power),
                 [function |-> "divByPo2", cipher |-> name])

NextCopy ==
    \/ \E v \in Values : EncryptX(v)
    \/ SquareInplace
    \/ \E name \in CopyArgs : ModSwitchToNextInplace(name)
    \/ \E name \in CopyArgs : CallBadCopy(name)
    \/ \E name \in CopyArgs, power \in 1..MaxPower : CallDivByPo2(name, power)

SpecCopy == InitCopy /\ [][NextCopy]_vars

\* The scale field over the scale the message was produced at.
ScaleRatio(s, t) ==
    [bits |-> s.bits - t.bits,
     den |-> [l \in 1..FirstDataLevel |-> s.den[l] - t.den[l]]]

\* decryptor.decrypt and encoder.decode_double: every term of the message
\* divided by the scale field, i.e. its value over ScaleRatio.
DecodedTerms(c) ==
    [i \in DOMAIN c.message |->
        [value |-> c.message[i].value,
         over |-> ScaleRatio(c.scale, c.message[i].scale)]]

\* C26 as stated: whenever bad_copy returns, the copy has size 2, is one
\* level below cipher, has scale cipher.scale * scale / P, P the prime of the
\* level cipher is at, and cipher is unchanged.
C26_CopyHasSize2 ==
    [][\A name \in CopyArgs :
          (CallBadCopy(name) /\ cmp_raised' = "") =>
             /\ store'["x_copy"].size = 2
             /\ store'["x_copy"].level = store[name].level - 1
             /\ store'["x_copy"].scale =
                   ScaleOverPrime(ScaleProduct(store[name].scale, PowerOfTwo(ModPow)),
                                  store[name].level)
             /\ store'[name] = store[name]]_vars

\* C26: whenever bad_copy returns, the copy has the size of cipher (2 for a
\* cipher of size 2, 3 for an unrelinearized product), is one level below
\* cipher, has scale cipher.scale * scale / P, P the prime of the level
\* cipher is at, decodes to what cipher decodes to, and cipher and every
\* other object are unchanged.
C26_CopyOneLevelBelow ==
    [][\A name \in CopyArgs :
          (CallBadCopy(name) /\ cmp_raised' = "") =>
             /\ store'["x_copy"].size = store[name].size
             /\ store'["x_copy"].level = store[name].level - 1
             /\ store'["x_copy"].scale =
                   ScaleOverPrime(ScaleProduct(store[name].scale, PowerOfTwo(ModPow)),
                                  store[name].level)
             /\ DecodedTerms(store'["x_copy"]) = DecodedTerms(store[name])
             /\ \A other \in CmpNames \ {"x_copy"} : store'[other] = store[other]]_vars

\* A copy of size 3 next to one-level-higher x_enc of size 3.
C26_Witness ==
    /\ cmp_call = [function |-> "bad_copy", cipher |-> "x_enc"]
    /\ cmp_raised = ""
    /\ store["x_enc"].size = 3
    /\ store["x_copy"].size = 3
    /\ store["x_copy"].level = store["x_enc"].level - 1
    /\ store["x_copy"].scale.bits = 3 * ModPow
    /\ store["x_copy"].scale.den[FirstDataLevel] = 1

\* C27: divByPo2(cipher, power) multiplies the scale field by 2^power and
\* changes nothing else: level, size and message are as before, no other
\* object changes, and cipher decodes to its previous value over 2^power.
C27_DivByPo2ChangesScaleOnly ==
    [][\A name \in CopyArgs, power \in 1..MaxPower :
          CallDivByPo2(name, power) =>
             /\ cmp_raised' = ""
             /\ store'[name].level = store[name].level
             /\ store'[name].size = store[name].size
             /\ store'[name].message = store[name].message
             /\ store'[name].scale = [store[name].scale EXCEPT !.bits = @ + power]
             /\ DecodedTerms(store'[name]) =
                   [i \in DOMAIN store[name].message |->
                       [DecodedTerms(store[name])[i] EXCEPT !.over.bits = @ + power]]
             /\ \A other \in CmpNames \ {name} : store'[other] = store[other]]_vars

\* A fresh x_enc divided by 2^MaxPower at the first data level.
C27_Witness ==
    /\ cmp_call = [function |-> "divByPo2", cipher |-> "x_enc"]
    /\ store["x_enc"].level = FirstDataLevel
    /\ store["x_enc"].size = 2
    /\ Len(store["x_enc"].message) = 1
    /\ DecodedTerms(store["x_enc"])[1].over = PowerOfTwo(MaxPower)

\* C30: bad_copy encodes its unit plaintext at the first data level.  Called
\* on a ciphertext at the first data level it returns a copy; called on a
\* ciphertext at a lower level (its own output included) its multiply_plain
\* is refused and no object is assigned.
C30_BadCopyFirstLevelOnly ==
    [][\A name \in CopyArgs :
          CallBadCopy(name) =>
             /\ DummyPlain(store[name], ModPow).level = FirstDataLevel
             /\ IF store[name].level = FirstDataLevel
                THEN /\ cmp_raised' = ""
                     /\ store'["x_copy"].level = FirstDataLevel - 1
                ELSE /\ cmp_raised' = "LevelMismatch"
                     /\ store' = store]_vars

\* bad_copy called on its own output.
C30_Witness ==
    /\ cmp_call = [function |-> "bad_copy", cipher |-> "x_copy"]
    /\ cmp_raised = "LevelMismatch"
    /\ store["x_copy"].level = FirstDataLevel - 1
    /\ store["x_enc"].level = FirstDataLevel

----------------------------------------------------------------------------
(***************************************************************************)
(* The cells of comparison.ipynb that evaluate                             *)
(* g(x) = (35x - 35x^3 + 21x^5 - 5x^7) / 2^4, run in notebook order, next  *)
(* to the cells of part_001 that evaluate PI*x^3 + 0.4*x + 1.              *)
(***************************************************************************)

\* The passes of square_and_multiply over digits, up to the first that
\* raises.
RECURSIVE Passes(_, _, _)
Passes(digits, c, r) ==
    IF digits = <<>> THEN Frame(c, r, "")
    ELSE LET frame == IF Head(digits) = 1 THEN DigitOne(c, r) ELSE DigitZero(c, r)
         IN  IF frame.raised # "" THEN frame
             ELSE Passes(Tail(digits), frame.cipher, frame.res)

\* square_and_multiply(c, e, evaluator, relin_keys, scale, encoder, r)
SquareAndMultiplyRun(c, e, r) ==
    IF IsZero(e) THEN Frame(c, r, "ValueError")
    ELSE Passes(Reverse(Binary(e)), c, r)

\* encryptor.encrypt(dummy_plain, xe_enc); x_copy = bad_copy(x_enc, ...);
\* mod_switch_to_next_inplace(xe_enc); square_and_multiply(x_copy, e, ...,
\* xe_enc): the res it leaves and what it raised.
PowerOf(x_encrypted, e) ==
    LET copy == BadCopy(x_encrypted, ModPow)
        one == Switched(Encrypted(DummyPlain(x_encrypted, ModPow)))
    IN  IF copy.raised # "" THEN Outcome(NoCt, copy.raised)
        ELSE LET frame == SquareAndMultiplyRun(copy.ct, e, one)
             IN  Outcome(frame.res, frame.raised)

\* add_many_coeff(coeff, cipher, evaluator, result): cipher added to itself
\* coeff times.
AddManyCoeff(coeff, c) ==
    [c EXCEPT !.message = [i \in DOMAIN c.message |->
                              Term(coeff * c.message[i].value, c.message[i].scale)]]

\* Mutation: the scale field is left as it is.
ScaleKept(c, s) == c

\* c.scale = s
ScaleSet(c, s) == [c EXCEPT !.scale = s]

\* evaluator.mod_switch_to_inplace(c, target.parms_id())
SwitchedToLevelOf(c, target) ==
    IF target.level > c.level THEN Outcome(c, "InvalidTarget")
    ELSE Outcome(SwitchedTo(c, target.level), "")

SameLevelAndScale(a, b) == a.level = b.level /\ a.scale = b.scale

\* evaluator.add(a, b, d), add_inplace(a, b)
Added(a, b) ==
    IF a.level # b.level THEN Outcome(NoCt, "LevelMismatch")
    ELSE IF a.scale # b.scale THEN Outcome(NoCt, "ScaleMismatch")
    ELSE Outcome([level |-> a.level,
                  size |-> Max(a.size, b.size),
                  scale |-> a.scale,
                  message |-> a.message \o b.message], "")

Negated(c) ==
    [c EXCEPT !.message = [i \in DOMAIN c.message |->
                              Term(0 - c.message[i].value, c.message[i].scale)]]

\* evaluator.sub(a, b, d), sub_inplace(a, b)
Subtracted(a, b) == Added(a, Negated(b))

InitG ==
    /\ store = [n \in CmpNames |-> NoCt]
    /\ cmp_cell = 1
    /\ cmp_call = <<>>
    /\ cmp_raised = ""
    /\ EvalIdle
    /\ CtxIdle
    /\ BatchIdle
    /\ BfvIdle
    /\ NoiseIdle
    /\ CkksIdle
    /\ BitIdle
    /\ SqmIdle

\* The cell has run to its end, or has raised and assigned nothing.
CellEnd(error, after) ==
    /\ cmp_raised' = error
    /\ IF error = ""
       THEN store' = after /\ cmp_cell' = cmp_cell + 1
       ELSE UNCHANGED <<store, cmp_cell>>
    /\ UNCHANGED cmp_call
    /\ UNCHANGED notCmp

FirstError(errors) ==
    IF \A i \in DOMAIN errors : errors[i] = "" THEN ""
    ELSE errors[CHOOSE i \in DOMAIN errors :
                   errors[i] # "" /\ \A j \in 1..(i - 1) : errors[j] = ""]

\* x^7, x^5 and x^3 by square_and_multiply on copies of a fresh x_enc, and
\* a last copy of x.
CellPowers(v) ==
    /\ cmp_cell = 1
    /\ cmp_raised = ""
    /\ LET x_encrypted == Encrypted(Encode(v, ModPow))
           x7 == PowerOf(x_encrypted, 7)
           x5 == PowerOf(x_encrypted, 5)
           x3 == PowerOf(x_encrypted, 3)
           x_copy == BadCopy(x_encrypted, ModPow)
       IN  CellEnd(FirstError(<<x7.raised, x5.raised, x3.raised, x_copy.raised>>),
                   [store EXCEPT !["x_enc"] = x_encrypted,
                                 !["x7_enc"] = x7.ct,
                                 !["x5_enc"] = x5.ct,
                                 !["x3_enc"] = x3.ct,
                                 !["x_copy"] = x_copy.ct])

\* 35x, 35x^3, 21x^5 and 5x^7, all divided by 2^4
CellCoefficients ==
    /\ cmp_cell = 2
    /\ cmp_raised = ""
    /\ CellEnd("",
               [store EXCEPT
                   !["x_coeff"] = DivByPo2(AddManyCoeff(35, store["x_copy"]), 4),
                   !["x3_coeff"] = DivByPo2(AddManyCoeff(35, store["x3_enc"]), 4),
                   !["x5_coeff"] = DivByPo2(AddManyCoeff(21, store["x5_enc"]), 4),
                   !["x7_coeff"] = DivByPo2(AddManyCoeff(5, store["x7_enc"]), 4)])

\* mod_switch_to_inplace of x_coeff and x3_coeff to the parms_id of x7_coeff;
\* the scale of x7_coeff written into x_coeff, x3_coeff and x5_coeff.
CellAlign ==
    /\ cmp_cell = 3
    /\ cmp_raised = ""
    /\ LET x1 == SwitchedToLevelOf(store["x_coeff"], store["x7_coeff"])
           x3 == SwitchedToLevelOf(store["x3_coeff"], store["x7_coeff"])
           common == store["x7_coeff"].scale
       IN  CellEnd(FirstError(<<x1.raised, x3.raised>>),
                   [store EXCEPT !["x_coeff"] = ScaleSet(x1.ct, common),
                                 !["x3_coeff"] = ScaleSet(x3.ct, common),
                                 !["x5_coeff"] = ScaleSet(@, common)])

\* sub(x_coeff, x3_coeff, res); add_inplace(res, x5_coeff);
\* sub_inplace(res, x7_coeff)
CellSum ==
    /\ cmp_cell = 4
    /\ cmp_raised = ""
    /\ LET first == Subtracted(store["x_coeff"], store["x3_coeff"])
           second == IF first.raised # "" THEN first
                     ELSE Added(first.ct, store["x5_coeff"])
           third == IF second.raised # "" THEN second
                    ELSE Subtracted(second.ct, store["x7_coeff"])
       IN  CellEnd(third.raised, [store EXCEPT !["res"] = third.ct])

NextG ==
    \/ \E v \in Values : CellPowers(v)
    \/ CellCoefficients
    \/ CellAlign
    \/ CellSum

InitPolynomials == InitCkks \/ InitG

NextPolynomials == NextCkks \/ NextG

SpecPolynomials == InitPolynomials /\ [][NextPolynomials]_vars

\* The four terms of g.
Coefficients == {"x_coeff", "x3_coeff", "x5_coeff", "x7_coeff"}

\* C28: in both polynomial notebooks, once the alignment cell has run, the
\* operands of every addition and subtraction are at one level and carry one
\* scale: in part_001 x3_encrypted, x1_encrypted and plain_coeff0, in
\* comparison.ipynb the four terms of g.  No addition raises, and the sum
\* is at that level with that scale.
C28_SumsAreAligned ==
    /\ ckks_cell = 5 =>
          /\ CkksCompatible(ckks["x3_encrypted"], ckks["x1_encrypted"])
          /\ CkksCompatible(ckks["x3_encrypted"], plain_coeff["plain_coeff0"])
    /\ ckks_cell \in {6, 7} =>
          CkksCompatible(ckks["encrypted_result"], ckks["x3_encrypted"])
    /\ cmp_cell \in {4, 5} =>
          \A a, b \in Coefficients : SameLevelAndScale(store[a], store[b])
    /\ cmp_cell >= 1 => cmp_raised = ""
    /\ cmp_cell = 5 =>
          /\ SameLevelAndScale(store["res"], store["x7_coeff"])
          /\ Len(store["res"].message) = 4

\* g(x) summed at level 2 from terms that came from levels 5, 3, 2 and 2
\* with four different scales.
C28_Witness ==
    /\ cmp_cell = 5
    /\ store["res"].level = 2
    /\ store["x_copy"].level = 5
    /\ store["x3_enc"].level = 3
    /\ store["x5_enc"].level = 2
    /\ store["x5_enc"].scale # store["x7_enc"].scale
    /\ store["x3_enc"].scale # store["x7_enc"].scale
    /\ store["res"].scale = store["x7_coeff"].scale

====
